---- MODULE Spec2Model ----
(***************************************************************************)
(* A model of the rvutils graph engine (graph.c): the hashed node index,   *)
(* the node and edge obstacks, the component list, and the insertion       *)
(* operations graph_add_node and graph_add_edge.                           *)
(*                                                                         *)
(* Pointers are modelled as follows.  A struct Node* is the position of    *)
(* the node in the node obstack (1 = first allocated), 0 is NULL.  A       *)
(* struct Component* is a positive integer naming a live malloc block, 0   *)
(* is NULL.  An identifier string is a small integer, strcmp is the        *)
(* integer order.                                                          *)
(***************************************************************************)
EXTENDS Integers, Sequences, FiniteSets, TLC

VARIABLES
    g,            \* the struct Graph
    hashsel,      \* which hash function of HashFamily the program uses
    pre,          \* the struct Graph as it was when the last call was made
    last,         \* the last call: its arguments and result, whether an
                  \* allocation failed in it, whether xmalloc ended the
                  \* process in it (exited), and whether the same pair
                  \* (again) or the opposite pair (reverse) had been passed
                  \* to an earlier add_edge call that did not fail
    seenIds,      \* identifiers passed to calls that did not fail
    seenArcs,     \* pairs <<s1, s2>> passed to add_edge calls that did not fail
    allocfailed,  \* some allocation has failed since graph_init
    crashed,      \* the process has died inside a call
    ncalls,       \* number of calls made since the window opened
    tailq,        \* tailq_sort: the TAILQ, its elements and the locals of
                  \* the call
    splitcol,     \* split_col: the input read so far, the output files
                  \* and the open output handles
    pool,         \* tmppool: the pool, its objects and the position of
                  \* each thread in tmppool_get or tmppool_put
    cliq          \* clique.c: the node sets and the node-set pool of a
                  \* clique search, with what is recorded about their use

vars == <<g, hashsel, pre, last, seenIds, seenArcs, allocfailed, crashed,
          ncalls, tailq, splitcol, pool, cliq>>

\* the Graph and what is recorded about the calls on it, and the node sets
\* of the clique search
graphvars == <<g, hashsel, pre, last, seenIds, seenArcs, allocfailed, crashed,
               ncalls, cliq>>

\* the state that the calls on the Graph leave alone: that of the programs
\* that use no Graph, and the node sets of the clique search
others == <<tailq, splitcol, pool, cliq>>

\* a program that is not running
Idle == [pc |-> "idle"]
OthersIdle == tailq = Idle /\ splitcol = Idle /\ pool = Idle /\ cliq = Idle

(***************************************************************************)
(* Bounds of the model.                                                    *)
(***************************************************************************)
\* number of add_node and add_edge calls of a run
MaxCalls == 3

\* the longest TAILQ that is sorted, and the largest value of an element
MaxSortLen == 8
MaxValue == 2

\* split_col: the number of input files on the command line, the number
\* of lines of an input file and the number of values of the column
MaxInputs == 2
MaxFileLines == 3
MaxColValue == 2

\* tmppool: the number of threads, the largest cpu number, the number of
\* objects malloc gives out, and the number N = 2^PoolBits of lists
NThreads == 2
MaxCpu == 2
MaxObjs == 3
PoolBits == 1

\* node sets: the largest Node put into a set, and the number of
\* operations applied to a set after it was built
MaxNode == 8
MaxSetOps == 2

\* the clique search with its buffers: one allocation of a search may
\* fail, the first, the second, ... or the MaxFailAt-th one
MaxFailAt == 8

\* the largest flag word passed to graph_init under SpecInit
MaxNames == 3
MaxOpen == 2
MaxErrs == 2
MaxCacheLines == 4

MaxFlagWord == 31

\* the callbacks passed to the iterators return 0 except at one invocation,
\* the stop-th with stop in 1..MaxStop, or they return 0 always (stop = 0)
MaxStop == 4

\* number of lines of the files graph_add_file reads
MaxLines == 3

\* number of identifiers of the Graphs the clique search is run on: every
\* graph on MaxCliqueNodes identifiers, and graphs on WideNodes identifiers
\* in which one Node is adjacent to all others
MaxCliqueNodes == 5
WideNodes == 9

\* the identifiers the modelled calls pass
Idents == {1, 2, 3}
\* the identifiers of the prefill calls
FillIdent(k) == 100 + k

(***************************************************************************)
(* Program constants.                                                      *)
(***************************************************************************)
GRAPH_UNDIRECTED == 1
GRAPH_NOPARALLEL == 2
GRAPH_NOLOOP == 4
GRAPH_DUAL == 8
\* graph_init: int bshift = 4
bshift == 4
\* UINT32_MAX is 4294967295 in the program.  TLC's integers are 32 bit
\* signed, so the model uses the largest value TLC can hold; it is only
\* ever compared with node_count, which stays far below either value.
UINT32_MAX == 2147483647

NULL == 0

\* flags & f, for a single-bit f
HasFlag(flags, f) == (flags \div f) % 2 = 1

RECURSIVE Pow2(_)
Pow2(k) == IF k = 0 THEN 1 ELSE 2 * Pow2(k - 1)

\* number of Nodes of the Graph that SpecResize starts from: one below the
\* resize_threshold that graph_init sets
Prefill == bshift * Pow2(bshift) - 1

\* __builtin_ctz(x) for a power of two x
RECURSIVE ctz(_)
ctz(x) == IF x % 2 = 1 THEN 0 ELSE 1 + ctz(x \div 2)

\* hv & mask, for a mask of the form 2^k - 1 (graph_init asserts this form)
BitAnd(hv, mask) == hv % (mask + 1)

(***************************************************************************)
(* jenkins_hash(nstr, idlen, HASH_INIT).  The hash function's code is not  *)
(* part of the sources; it is a fixed function of the string.  The model   *)
(* draws it once, in Init, from a small family: one that sends all strings *)
(* to the same value and one that spreads them, against the string order.  *)
(***************************************************************************)
HashFamily == {"collide", "spread"}

jenkins_hash(sel, nstr) ==
    IF sel = "collide" THEN 19 ELSE 5000 - 21 * nstr

(***************************************************************************)
(* Sequence helpers for the BSD queue macros.                              *)
(***************************************************************************)
\* the sequence s without its i-th element
RemoveAt(s, i) == SubSeq(s, 1, i - 1) \o SubSeq(s, i + 1, Len(s))

\* position of the first occurrence of x in s, 0 if there is none
IndexOf(s, x) ==
    IF \E i \in 1..Len(s) : s[i] = x
    THEN CHOOSE i \in 1..Len(s) : s[i] = x /\ \A j \in 1..(i - 1) : s[j] # x
    ELSE 0

Range(s) == {s[i] : i \in 1..Len(s)}

(***************************************************************************)
(* struct Graph is the record                                              *)
(*   components       TAILQ of Components, first to last                   *)
(*   nodes            the bucket array: bucket number -> SLIST of Nodes,   *)
(*                    head first                                           *)
(*   hashmask, flags, node_count, resize_threshold                         *)
(*   node_os          the node obstack: the Node objects in allocation     *)
(*                    order                                                *)
(*   edge_os          the edge obstack: the number of live Edge objects    *)
(* struct Component is [id, nodes, node_count, edge_count], where id is    *)
(* the address of the malloc block and nodes is the STAILQ of members.     *)
(* struct Node is [ident, hv, comp, out_edges, out_degree, in_degree],     *)
(* where out_edges is the SLIST of Edges, head first, each Edge given by   *)
(* its tgt.                                                                *)
(***************************************************************************)

\* position in the component list of the Component at address c
CompPos(G, c) == CHOOSE i \in 1..Len(G.components) : G.components[i].id = c

CompAt(G, c) == G.components[CompPos(G, c)]

\* malloc(sizeof *c): the address of a block that is not live
FreshComp(G) ==
    LET live == {G.components[i].id : i \in 1..Len(G.components)}
    IN  CHOOSE c \in 1..(Len(G.components) + 1) :
            c \notin live /\ \A d \in 1..(c - 1) : d \in live

graph_new_component(G, fail) ==
    IF fail
    THEN [g |-> G, c |-> NULL]
    ELSE LET c == FreshComp(G)
         IN  [g |-> [G EXCEPT !.components =
                        Append(@, [id |-> c, nodes |-> <<>>,
                                   node_count |-> 0, edge_count |-> 0])],
              c |-> c]

graph_remove_component(G, c) ==
    [G EXCEPT !.components = RemoveAt(@, CompPos(G, c))]

MergeSurvivor_Src(G, c1, c2) == c1

\* the component that survives graph_merge_components(g, c1, c2)
MergeSurvivor(G, c1, c2) ==
    IF CompAt(G, c2).node_count > CompAt(G, c1).node_count THEN c2 ELSE c1

MergeCounts_Drop(S, A) == S

\* the surviving Component S after the list and counters of A were added
MergeCounts(S, A) ==
    [S EXCEPT !.nodes = @ \o A.nodes,
              !.node_count = @ + A.node_count,
              !.edge_count = @ + A.edge_count]

graph_merge_components(G, c1, c2) ==
    LET s == MergeSurvivor(G, c1, c2)
        a == IF s = c1 THEN c2 ELSE c1
        A == CompAt(G, a)
        moved == Range(A.nodes)
        os == [i \in DOMAIN G.node_os |->
                 IF i \in moved THEN [G.node_os[i] EXCEPT !.comp = s]
                                ELSE G.node_os[i]]
        G1 == [G EXCEPT !.node_os = os,
                        !.components[CompPos(G, s)] = MergeCounts(@, A),
                        !.components[CompPos(G, a)] =
                            [@ EXCEPT !.nodes = <<>>, !.node_count = 0,
                                      !.edge_count = 0]]
    IN  [g |-> graph_remove_component(G1, a), c |-> s]

component_add_node_NoCount(G, c, n) ==
    [G EXCEPT !.components[CompPos(G, c)] = [@ EXCEPT !.nodes = Append(@, n)],
              !.node_os[n] = [@ EXCEPT !.comp = c]]

component_add_node(G, c, n) ==
    [G EXCEPT !.components[CompPos(G, c)] =
                  [@ EXCEPT !.nodes = Append(@, n), !.node_count = @ + 1],
              !.node_os[n].comp = c]

node_add_out_edge_NoLink(G, node, tgt) ==
    [G EXCEPT !.node_os[node].out_degree = @ + 1,
              !.node_os[tgt].in_degree = @ + 1,
              !.components[CompPos(G, G.node_os[node].comp)].edge_count = @ + 1]

node_add_out_edge_NoCount(G, node, tgt) ==
    [G EXCEPT !.node_os[node].out_edges = <<tgt>> \o @,
              !.node_os[node].out_degree = @ + 1,
              !.node_os[tgt].in_degree = @ + 1]

\* node_add_out_edge(node, e) for the Edge e with e->tgt = tgt
node_add_out_edge(G, node, tgt) ==
    [G EXCEPT !.node_os[node].out_edges = <<tgt>> \o @,
              !.node_os[node].out_degree = @ + 1,
              !.node_os[tgt].in_degree = @ + 1,
              !.components[CompPos(G, G.node_os[node].comp)].edge_count = @ + 1]

\* the loop of graph_attempt_hash_resize that moves the old chains: `order'
\* lists the Nodes as the loop takes them (bucket 0 from its head, then
\* bucket 1, ...), each is put at the head of its new chain
RECURSIVE MoveChains(_, _, _, _)
MoveChains(G, newbucket, order, k) ==
    IF k > Len(order)
    THEN newbucket
    ELSE MoveChains(G,
            [newbucket EXCEPT ![BitAnd(G.node_os[order[k]].hv, G.hashmask)] =
                                  <<order[k]>> \o @],
            order, k + 1)

RECURSIVE ChainsFrom(_, _, _)
ChainsFrom(G, i, oldsize) ==
    IF i >= oldsize THEN <<>> ELSE G.nodes[i] \o ChainsFrom(G, i + 1, oldsize)

graph_attempt_hash_resize_KeepThreshold(G, fail) ==
    LET oldsize == G.hashmask + 1
        newsize == 2 * oldsize
        newmask == newsize - 1
        scaled == newsize * ctz(newsize)
    IN  IF fail
        THEN G
        ELSE [G EXCEPT
                !.nodes = MoveChains(G, [i \in 0..(newsize - 1) |-> <<>>],
                                     ChainsFrom(G, 0, oldsize), 1),
                !.hashmask = newmask,
                !.resize_threshold =
                    IF scaled > UINT32_MAX THEN UINT32_MAX ELSE scaled]

graph_attempt_hash_resize(G, fail) ==
    LET oldsize == G.hashmask + 1
        newsize == 2 * oldsize
        newmask == newsize - 1
        scaled == newsize * ctz(newsize)
    IN  IF fail
        THEN [G EXCEPT !.resize_threshold = UINT32_MAX]
        ELSE [G EXCEPT
                !.nodes = MoveChains(G, [i \in 0..(newsize - 1) |-> <<>>],
                                     ChainsFrom(G, 0, oldsize), 1),
                !.hashmask = newmask,
                !.resize_threshold =
                    IF scaled > UINT32_MAX THEN UINT32_MAX ELSE scaled]

\* The obstack_alloc result is not yet initialised; the caller fills every
\* field before anything reads it.
BlankNode ==
    [ident |-> 0, hv |-> 0, comp |-> NULL, out_edges |-> <<>>,
     out_degree |-> 0, in_degree |-> 0]

\* Results carry `failed': an allocation returned NULL during the call.
\* osfail: obstack_alloc needs a new chunk and the malloc of xmalloc returns
\* NULL; xmalloc then ends the process with error(2, ...), so that the
\* test for a NULL result is never taken.
graph_alloc_node(G, osfail, rfail) ==
    IF osfail
    THEN [g |-> G, n |-> NULL, failed |-> TRUE, crash |-> TRUE]
    ELSE LET n == Len(G.node_os) + 1
             G1 == [G EXCEPT !.node_os = Append(@, BlankNode),
                             !.node_count = @ + 1]
             grow == G1.node_count > G1.resize_threshold
         IN  [g |-> IF grow THEN graph_attempt_hash_resize(G1, rfail) ELSE G1,
              n |-> n,
              failed |-> grow /\ rfail,
              crash |-> FALSE]

graph_remove_last_node_Keep(G, n) == [g |-> G, crash |-> FALSE]

\* SLIST_REMOVE walks the chain it is given; on a chain that does not hold
\* n it runs off the end and dereferences NULL.  obstack_free(os, n) frees
\* n and everything allocated after it.
graph_remove_last_node(G, n) ==
    LET b == BitAnd(G.node_os[n].hv, G.hashmask)
        pos == IndexOf(G.nodes[b], n)
    IN  IF pos = 0
        THEN [g |-> G, crash |-> TRUE]
        ELSE [g |-> [G EXCEPT !.nodes[b] = RemoveAt(@, pos),
                              !.node_os = SubSeq(@, 1, n - 1),
                              !.node_count = @ - 1],
              crash |-> FALSE]

\* the SLIST_FOREACH of graph_add_node_internal: the first Node of the
\* chain with this hash value and identifier, NULL if there is none
LookupNode(G, hv, nstr) ==
    LET chain == G.nodes[BitAnd(hv, G.hashmask)]
        hit(i) == G.node_os[chain[i]].hv = hv /\ G.node_os[chain[i]].ident = nstr
    IN  IF \E i \in 1..Len(chain) : hit(i)
        THEN chain[CHOOSE i \in 1..Len(chain) :
                       hit(i) /\ \A j \in 1..(i - 1) : ~hit(j)]
        ELSE NULL

\* graph_add_node_internal, lines 302-311: n is allocated, filled in and
\* chained (Graph G1); nc is the result of graph_new_component
add_node_component(G1, n, allocfail, nc) ==
    LET rm == graph_remove_last_node(G1, n)
    IN  IF nc.c = NULL
        THEN [g |-> rm.g, n |-> NULL, crash |-> rm.crash, failed |-> TRUE]
        ELSE [g |-> component_add_node(nc.g, nc.c, n), n |-> n,
              crash |-> FALSE, failed |-> allocfail]

\* graph_add_node_internal, lines 291-311: al is the result of
\* graph_alloc_node
add_node_created(G, al, hv, nstr, create_comp, F) ==
    LET n == al.n
        G1 == [al.g EXCEPT
                 !.node_os[n] = [ident |-> nstr, hv |-> hv, comp |-> NULL,
                                 out_edges |-> <<>>, out_degree |-> 0,
                                 in_degree |-> 0],
                 !.nodes[BitAnd(hv, al.g.hashmask)] = <<n>> \o @]
    IN  IF al.crash
        THEN [g |-> G, n |-> NULL, crash |-> TRUE, failed |-> TRUE]
        ELSE IF n = NULL
        THEN [g |-> G, n |-> NULL, crash |-> FALSE, failed |-> TRUE]
        ELSE IF ~create_comp
        THEN [g |-> G1, n |-> n, crash |-> FALSE, failed |-> al.failed]
        ELSE add_node_component(G1, n, al.failed,
                                graph_new_component(G1, "comp" \in F))

\* F is the set of allocations that fail in this call; osf names the node
\* allocation of this lookup
graph_add_node_internal(G, sel, nstr, create_comp, F, osf) ==
    LET hv == jenkins_hash(sel, nstr)
        found == LookupNode(G, hv, nstr)
    IN  IF found # NULL
        THEN [g |-> G, n |-> found, crash |-> FALSE, failed |-> FALSE]
        ELSE add_node_created(G,
                 graph_alloc_node(G, osf \in F, "resize" \in F),
                 hv, nstr, create_comp, F)

\* TAILQ_LAST(&g->components)
LastComp(G) ==
    IF Len(G.components) = 0 THEN NULL
    ELSE G.components[Len(G.components)].id

\* graph_add_node, lines 459-469: r is the result of graph_add_node_internal
add_node_result(G, r) ==
    [g |-> r.g,
     rv |-> IF r.n = NULL THEN -1
            ELSE IF LastComp(G) # LastComp(r.g) THEN 1 ELSE 0,
     crash |-> r.crash,
     failed |-> r.failed]

graph_add_node(G, sel, nstr, F) ==
    add_node_result(G, graph_add_node_internal(G, sel, nstr, TRUE, F, "node1"))

\* do_add_edge(g, src, tgt); efail: this call's obstack_alloc of the Edge
\* needs a new chunk and xmalloc ends the process; cfail: its
\* graph_new_component fails
do_add_edge(G, src, tgt, efail, cfail) ==
    LET G0 == [G EXCEPT !.edge_os = @ + 1]
        sc == G0.node_os[src].comp
        tc == G0.node_os[tgt].comp
        nc == graph_new_component(G0, cfail)
        Ga1 == component_add_node(nc.g, nc.c, src)
        Ga2 == IF src # tgt THEN component_add_node(Ga1, nc.c, tgt) ELSE Ga1
    IN  IF efail THEN [g |-> G, rv |-> -1, crash |-> TRUE]
        ELSE IF sc = NULL /\ tc = NULL
        THEN IF nc.c = NULL
             THEN [g |-> [G0 EXCEPT !.edge_os = @ - 1], rv |-> -1,
                   crash |-> FALSE]
             ELSE [g |-> node_add_out_edge(Ga2, src, tgt), rv |-> 1,
                   crash |-> FALSE]
        ELSE IF sc = NULL
        THEN [g |-> node_add_out_edge(component_add_node(G0, tc, src), src, tgt),
              rv |-> 1, crash |-> FALSE]
        ELSE IF tc = NULL
        THEN [g |-> node_add_out_edge(component_add_node(G0, sc, tgt), src, tgt),
              rv |-> 1, crash |-> FALSE]
        ELSE IF sc = tc
        THEN [g |-> node_add_out_edge(G0, src, tgt), rv |-> 1, crash |-> FALSE]
        ELSE [g |-> node_add_out_edge(graph_merge_components(G0, sc, tc).g,
                                      src, tgt),
              rv |-> 1, crash |-> FALSE]

graph_edge_exists(G, src, tgt) ==
    \E i \in 1..Len(G.node_os[src].out_edges) : G.node_os[src].out_edges[i] = tgt

nodes_cmp(G, n1, n2) ==
    IF G.node_os[n1].hv < G.node_os[n2].hv THEN -1
    ELSE IF G.node_os[n1].hv > G.node_os[n2].hv THEN 1
    ELSE IF G.node_os[n1].ident < G.node_os[n2].ident THEN -1
    ELSE IF G.node_os[n1].ident > G.node_os[n2].ident THEN 1
    ELSE 0

\* the two tests that make graph_add_edge return 0 without linking an edge
IsLoopNoop(G, n1, n2) == n1 = n2 /\ HasFlag(G.flags, GRAPH_NOLOOP)

IsParallelNoop_Never(G, n1, n2) == FALSE

IsParallelNoop(G, n1, n2) ==
    /\ HasFlag(G.flags, GRAPH_NOPARALLEL)
    /\ G.node_os[n1].comp # NULL
    /\ G.node_os[n1].comp = G.node_os[n2].comp
    /\ graph_edge_exists(G, n1, n2)

\* the test that makes graph_add_edge orient the edge canonically
NeedsSwap(G, n1, n2) ==
    HasFlag(G.flags, GRAPH_UNDIRECTED) /\ nodes_cmp(G, n1, n2) > 0

AddsReverse_Never(G, n1, n2) == FALSE

\* the test that makes graph_add_edge link the reverse edge as well
AddsReverse(G, n1, n2) == HasFlag(G.flags, GRAPH_DUAL) /\ n1 # n2

\* graph_add_edge, lines 581-590: the no-loop branch for the Node n1
add_edge_loop(G, n1, F) ==
    LET lc == graph_new_component(G, "comp" \in F)
        lrm == graph_remove_last_node(G, n1)
    IN  IF G.node_os[n1].comp # NULL
        THEN [g |-> G, rv |-> 0, crash |-> FALSE, failed |-> FALSE]
        ELSE IF lc.c = NULL
        THEN [g |-> lrm.g, rv |-> -1, crash |-> lrm.crash, failed |-> TRUE]
        ELSE [g |-> component_add_node(lc.g, lc.c, n1), rv |-> 0,
              crash |-> FALSE, failed |-> FALSE]

\* graph_add_edge, lines 614-623: the first do_add_edge failed; the Nodes
\* are removed in the order of the arguments (m2, then m1)
add_edge_undo(G, m1, m2) ==
    LET rm2 == IF G.node_os[m2].comp = NULL
               THEN graph_remove_last_node(G, m2)
               ELSE [g |-> G, crash |-> FALSE]
        rm1 == IF ~rm2.crash /\ m1 # m2 /\ rm2.g.node_os[m1].comp = NULL
               THEN graph_remove_last_node(rm2.g, m1)
               ELSE rm2
    IN  [g |-> rm1.g, rv |-> -1, crash |-> rm1.crash, failed |-> TRUE]

\* graph_add_edge, lines 668-670: d2 is the result of the second do_add_edge
add_edge_reverse(d2) ==
    IF d2.crash
    THEN [g |-> d2.g, rv |-> -1, crash |-> TRUE, failed |-> TRUE]
    ELSE IF d2.rv < 0
    THEN [g |-> d2.g, rv |-> -1, crash |-> FALSE, failed |-> TRUE]
    ELSE [g |-> d2.g, rv |-> 2, crash |-> FALSE, failed |-> FALSE]

\* graph_add_edge, lines 606-672: d1 is the result of the first do_add_edge
add_edge_linked(G, n1, n2, m1, m2, F, d1) ==
    IF d1.crash
    THEN [g |-> G, rv |-> -1, crash |-> TRUE, failed |-> TRUE]
    ELSE IF d1.rv < 0
    THEN add_edge_undo(G, m1, m2)
    ELSE IF AddsReverse(G, n1, n2)
    THEN add_edge_reverse(do_add_edge(d1.g, n2, n1, "edge2" \in F, "comp" \in F))
    ELSE [g |-> d1.g, rv |-> 1, crash |-> FALSE, failed |-> FALSE]

\* graph_add_edge, lines 575-672, for the edge from n1 to n2; m1 and m2 are
\* the Nodes of s1 and s2
add_edge_oriented(G, n1, n2, m1, m2, F) ==
    IF IsLoopNoop(G, n1, n2)
    THEN add_edge_loop(G, n1, F)
    ELSE IF IsParallelNoop(G, n1, n2)
    THEN [g |-> G, rv |-> 0, crash |-> FALSE, failed |-> FALSE]
    ELSE add_edge_linked(G, n1, n2, m1, m2, F,
             do_add_edge(G, n1, n2, "edge1" \in F, "comp" \in F))

\* the part of graph_add_edge after both endpoints were resolved to the
\* Nodes m1 (for s1) and m2 (for s2)
AddEdgeResolved(G, m1, m2, F) ==
    add_edge_oriented(G,
        IF NeedsSwap(G, m1, m2) THEN m2 ELSE m1,
        IF NeedsSwap(G, m1, m2) THEN m1 ELSE m2,
        m1, m2, F)

\* graph_add_edge: r1, r2 are the results of the two lookups, res that of
\* the rest of the call
add_edge_result(r1, r2, res) ==
    [g |-> res.g, rv |-> res.rv, crash |-> res.crash,
     failed |-> r1.failed \/ r2.failed \/ res.failed]

\* graph_add_edge, lines 561-672: r2 is the result of the lookup of s2
add_edge_second(r1, r2, F) ==
    LET un1 == IF r1.g.node_os[r1.n].comp = NULL
               THEN graph_remove_last_node(r1.g, r1.n)
               ELSE [g |-> r1.g, crash |-> FALSE]
    IN  IF r2.crash
        THEN [g |-> r2.g, rv |-> -1, crash |-> TRUE, failed |-> TRUE]
        ELSE IF r2.n = NULL
        THEN [g |-> un1.g, rv |-> -1, crash |-> un1.crash, failed |-> TRUE]
        ELSE add_edge_result(r1, r2, AddEdgeResolved(r2.g, r1.n, r2.n, F))

\* graph_add_edge, lines 558-672: r1 is the result of the lookup of s1
add_edge_first(sel, s2, F, r1) ==
    IF r1.n = NULL
    THEN [g |-> r1.g, rv |-> -1, crash |-> r1.crash, failed |-> TRUE]
    ELSE add_edge_second(r1,
             graph_add_node_internal(r1.g, sel, s2, FALSE, F, "node2"), F)

graph_add_edge(G, sel, s1, s2, F) ==
    add_edge_first(sel, s2, F,
                   graph_add_node_internal(G, sel, s1, FALSE, F, "node1"))

graph_init_AnyPair(flags, fail) ==
    LET buckets == Pow2(bshift)
        known == GRAPH_UNDIRECTED + GRAPH_NOPARALLEL + GRAPH_NOLOOP + GRAPH_DUAL
    IN  IF flags > known
        THEN [g |-> NULL, rv |-> -1, failed |-> FALSE]
        ELSE IF fail
        THEN [g |-> NULL, rv |-> -1, failed |-> TRUE]
        ELSE [g |-> [components |-> <<>>,
                     nodes |-> [i \in 0..(buckets - 1) |-> <<>>],
                     hashmask |-> buckets - 1,
                     flags |-> flags,
                     node_count |-> 0,
                     resize_threshold |-> bshift * buckets,
                     node_os |-> <<>>,
                     edge_os |-> 0],
              rv |-> 0, failed |-> FALSE]

\* graph_init(g, flags); fail: the malloc of the bucket array fails
graph_init(flags, fail) ==
    LET buckets == Pow2(bshift)
        known == GRAPH_UNDIRECTED + GRAPH_NOPARALLEL + GRAPH_NOLOOP + GRAPH_DUAL
    IN  IF flags > known
        THEN [g |-> NULL, rv |-> -1, failed |-> FALSE]
        ELSE IF HasFlag(flags, GRAPH_UNDIRECTED) /\ HasFlag(flags, GRAPH_DUAL)
        THEN [g |-> NULL, rv |-> -1, failed |-> FALSE]
        ELSE IF fail
        THEN [g |-> NULL, rv |-> -1, failed |-> TRUE]
        ELSE [g |-> [components |-> <<>>,
                     nodes |-> [i \in 0..(buckets - 1) |-> <<>>],
                     hashmask |-> buckets - 1,
                     flags |-> flags,
                     node_count |-> 0,
                     resize_threshold |-> bshift * buckets,
                     node_os |-> <<>>,
                     edge_os |-> 0],
              rv |-> 0, failed |-> FALSE]

(***************************************************************************)
(* The iterators.  The callback passed in is modelled by what it returns:  *)
(* value at its stop-th invocation and 0 at the others (it counts its      *)
(* invocations in ctx).  An iterator is given the sequence calls of the    *)
(* arguments of the invocations made so far and returns it extended,       *)
(* together with its result r.                                             *)
(***************************************************************************)
StopValues == {-1, 3}

\* the result of the invocation that makes `done' invocations in all
callback(done, stop, value) == IF done = stop THEN value ELSE 0

Stops_Never(r) == FALSE

Stops_Always(r) == TRUE

\* `if (r) return r;' after an invocation or an inner iterator returned r
Stops(r) == r # 0

EdgeArgs_Swapped(G, src, j) == <<G.node_os[src].out_edges[j], src>>

\* the arguments (src, edge->tgt) of the invocation for the j-th Edge of src
EdgeArgs(G, src, j) == <<src, G.node_os[src].out_edges[j]>>

\* graph_iterate_components: the TAILQ_FOREACH from the i-th Component on
RECURSIVE graph_iterate_components(_, _, _, _, _, _)
graph_iterate_components(G, i, calls, stop, value, r) ==
    IF Stops(r)
    THEN [calls |-> calls, r |-> r]
    ELSE IF i > Len(G.components)
    THEN [calls |-> calls, r |-> 0]
    ELSE graph_iterate_components(G, i + 1,
             Append(calls, G.components[i].id), stop, value,
             callback(Len(calls) + 1, stop, value))

\* component_iterate_nodes: the STAILQ_FOREACH from the i-th member on; r is
\* the result of the latest invocation
RECURSIVE component_iterate_nodes(_, _, _, _, _, _)
component_iterate_nodes(members, i, calls, stop, value, r) ==
    IF Stops(r)
    THEN [calls |-> calls, r |-> r]
    ELSE IF i > Len(members)
    THEN [calls |-> calls, r |-> 0]
    ELSE component_iterate_nodes(members, i + 1, Append(calls, members[i]),
             stop, value, callback(Len(calls) + 1, stop, value))

\* component_iterate_edges: the STAILQ_FOREACH from the i-th member on, its
\* SLIST_FOREACH from the j-th Edge of that member on
RECURSIVE component_iterate_edges(_, _, _, _, _, _, _, _)
component_iterate_edges(G, members, i, j, calls, stop, value, r) ==
    IF Stops(r)
    THEN [calls |-> calls, r |-> r]
    ELSE IF i > Len(members)
    THEN [calls |-> calls, r |-> 0]
    ELSE IF j > Len(G.node_os[members[i]].out_edges)
    THEN component_iterate_edges(G, members, i + 1, 1, calls, stop, value, 0)
    ELSE component_iterate_edges(G, members, i, j + 1,
             Append(calls, EdgeArgs(G, members[i], j)),
             stop, value, callback(Len(calls) + 1, stop, value))

\* graph_iterate_nodes: the TAILQ_FOREACH from the i-th Component on; res is
\* the result of component_iterate_nodes for the Component before it
RECURSIVE graph_iterate_nodes(_, _, _, _, _)
graph_iterate_nodes(G, i, stop, value, res) ==
    IF Stops(res.r)
    THEN res
    ELSE IF i > Len(G.components)
    THEN [calls |-> res.calls, r |-> 0]
    ELSE graph_iterate_nodes(G, i + 1, stop, value,
             component_iterate_nodes(G.components[i].nodes, 1, res.calls,
                                     stop, value, 0))

\* graph_iterate_edges, likewise
RECURSIVE graph_iterate_edges(_, _, _, _, _)
graph_iterate_edges(G, i, stop, value, res) ==
    IF Stops(res.r)
    THEN res
    ELSE IF i > Len(G.components)
    THEN [calls |-> res.calls, r |-> 0]
    ELSE graph_iterate_edges(G, i + 1, stop, value,
             component_iterate_edges(G, G.components[i].nodes, 1, 1,
                                     res.calls, stop, value, 0))

\* before the first invocation
NoCalls == [calls |-> <<>>, r |-> 0]

IterOps ==
    {"graph_iterate_components", "graph_iterate_nodes", "graph_iterate_edges",
     "component_iterate_nodes", "component_iterate_edges"}

\* the result of the iterator op on G, for the Component at position pos of
\* the component list where op takes a Component
Iteration(op, G, pos, stop, value) ==
    CASE op = "graph_iterate_components" ->
             graph_iterate_components(G, 1, <<>>, stop, value, 0)
      [] op = "graph_iterate_nodes" ->
             graph_iterate_nodes(G, 1, stop, value, NoCalls)
      [] op = "graph_iterate_edges" ->
             graph_iterate_edges(G, 1, stop, value, NoCalls)
      [] op = "component_iterate_nodes" ->
             component_iterate_nodes(G.components[pos].nodes, 1, <<>>,
                                     stop, value, 0)
      [] op = "component_iterate_edges" ->
             component_iterate_edges(G, G.components[pos].nodes, 1, 1, <<>>,
                                     stop, value, 0)

(***************************************************************************)
(* The maximal-clique search.  A pointer to a Node is the Node's position  *)
(* on the node obstack, which is the order of the addresses within an      *)
(* obstack chunk.  struct NodeSet is the record [nodes, sorted, abort]:    *)
(* nodes is the array nodes[0 .. len-1] as a sequence, and abort tells     *)
(* that nodeset_insert_sorted ran into its abort() while filling the set.  *)
(* The allocations of the search are taken to succeed.                     *)
(***************************************************************************)
\* nodeset_alloc, and nodeset_clear of any set
nodeset_clear == [nodes |-> <<>>, sorted |-> TRUE, abort |-> FALSE]

cmp_nodeptr(x, y) == IF x < y THEN -1 ELSE IF x > y THEN 1 ELSE 0

\* the sequence s, which is in cmp_nodeptr order, with x put in order
InsertInOrder(s, x) ==
    LET k == Cardinality({i \in 1..Len(s) : cmp_nodeptr(s[i], x) <= 0})
    IN  SubSeq(s, 1, k) \o <<x>> \o SubSeq(s, k + 1, Len(s))

\* qsort(nodes, len, sizeof(*nodes), &cmp_nodeptr)
RECURSIVE qsort(_)
qsort(s) == IF s = <<>> THEN <<>> ELSE InsertInOrder(qsort(Tail(s)), Head(s))

nodeset_sort(ns) ==
    IF ns.sorted THEN ns
    ELSE [ns EXCEPT !.nodes = IF Len(ns.nodes) > 1 THEN qsort(ns.nodes)
                               ELSE ns.nodes,
                    !.sorted = TRUE]

\* the binary search of nodeset_contains between lower and upper
RECURSIVE contains_search(_, _, _, _)
contains_search(nodes, node, lower, upper) ==
    IF lower >= upper
    THEN FALSE
    ELSE LET idx == (lower + upper) \div 2
             cmp == cmp_nodeptr(nodes[idx + 1], node)
         IN  IF cmp > 0 THEN contains_search(nodes, node, lower, idx)
             ELSE IF cmp < 0 THEN contains_search(nodes, node, idx + 1, upper)
             ELSE TRUE

nodeset_contains_Always(ns, node) == TRUE

nodeset_contains(ns, node) ==
    IF ns.sorted /\ Len(ns.nodes) >= 7
    THEN contains_search(ns.nodes, node, 0, Len(ns.nodes))
    ELSE \E i \in 1..Len(ns.nodes) : ns.nodes[i] = node

nodeset_append_KeepFlag(ns, node) ==
    [ns EXCEPT !.nodes = Append(ns.nodes, node)]

nodeset_append(ns, node) ==
    [ns EXCEPT !.nodes = Append(ns.nodes, node),
               !.sorted = \/ Len(ns.nodes) = 0
                          \/ /\ ns.sorted
                             /\ cmp_nodeptr(ns.nodes[Len(ns.nodes)], node) < 0]

\* the binary search of nodeset_insert_sorted: the index at which node is
\* stored, -1 if the search ends in abort(); idx and cmp are those of the
\* latest probe
RECURSIVE insert_search(_, _, _, _, _, _)
insert_search(nodes, node, lower, upper, idx, cmp) ==
    IF lower >= upper
    THEN (IF cmp < 0 THEN idx + 1 ELSE idx)
    ELSE LET i == (lower + upper) \div 2
             c == cmp_nodeptr(nodes[i + 1], node)
         IN  IF c > 0 THEN insert_search(nodes, node, lower, i, i, c)
             ELSE IF c < 0 THEN insert_search(nodes, node, i + 1, upper, i, c)
             ELSE -1

\* the memmove and the store of nodeset_insert_sorted at index idx
insert_at(ns, node, idx) ==
    IF idx = -1
    THEN [ns EXCEPT !.abort = TRUE]
    ELSE [ns EXCEPT !.nodes = SubSeq(ns.nodes, 1, idx) \o <<node>>
                              \o SubSeq(ns.nodes, idx + 1, Len(ns.nodes))]

nodeset_insert_sorted(ns, node) ==
    IF ns.abort
    THEN ns
    ELSE IF ~ns.sorted \/ Len(ns.nodes) = 0
    THEN nodeset_sort([ns EXCEPT !.nodes = Append(ns.nodes, node)])
    ELSE IF cmp_nodeptr(ns.nodes[Len(ns.nodes)], node) < 0
    THEN [ns EXCEPT !.nodes = Append(ns.nodes, node)]
    ELSE insert_at(ns, node,
                   insert_search(ns.nodes, node, 0, Len(ns.nodes), 0, 0))

\* nodeset_intersect(A, B): the loop from source index k on; kept holds
\* nodes[0 .. target-1]
RECURSIVE intersect_from(_, _, _, _)
intersect_from(A, B, k, kept) ==
    IF k > Len(A.nodes)
    THEN [A EXCEPT !.nodes = kept]
    ELSE intersect_from(A, B, k + 1,
             IF nodeset_contains(B, A.nodes[k]) THEN Append(kept, A.nodes[k])
             ELSE kept)

nodeset_intersect(A, B) == intersect_from(A, B, 1, <<>>)

\* the larger-degree test of the two pivot loops
pivot_step(G, pivot, n) ==
    IF G.node_os[n].out_degree > G.node_os[pivot].out_degree THEN n ELSE pivot

\* the pivot loops of BronKerbosch over the array nodes from index k on
RECURSIVE pivot_scan(_, _, _, _)
pivot_scan(G, nodes, k, pivot) ==
    IF k > Len(nodes) THEN pivot
    ELSE pivot_scan(G, nodes, k + 1, pivot_step(G, pivot, nodes[k]))

choose_pivot(G, P, X) ==
    pivot_scan(G, X.nodes, 1, pivot_scan(G, P.nodes, 2, P.nodes[1]))

\* SLIST_FOREACH(edge, &v->out_edges, nodelink) nodeset_insert_sorted(newX, edge->tgt)
RECURSIVE collect_neighbours(_, _, _)
collect_neighbours(edges, k, newX) ==
    IF k > Len(edges) THEN newX
    ELSE collect_neighbours(edges, k + 1,
                            nodeset_insert_sorted(newX, edges[k]))

\* the two loops that fill newP: the elements of the array nodes from
\* index j on that are in N are inserted into newP
RECURSIVE restrict_into(_, _, _, _)
restrict_into(newP, nodes, j, N) ==
    IF j > Len(nodes) THEN newP
    ELSE restrict_into(IF nodeset_contains(N, nodes[j])
                       THEN nodeset_insert_sorted(newP, nodes[j])
                       ELSE newP,
                       nodes, j + 1, N)

still_in_P_add_Forget(still_in_P, v) == still_in_P

\* `Remember that v actually belongs to P.'
still_in_P_add(still_in_P, v) == nodeset_insert_sorted(still_in_P, v)

X_add_Skip(X, v) == X

\* `Add v to X.'
X_add(X, v) == nodeset_insert_sorted(X, v)

X_is_empty_Always(X) == TRUE

\* `if (X->len == 0)' where P is empty: R cannot be extended
X_is_empty(X) == Len(X.nodes) = 0

Aborted(calls) == [calls |-> calls, r |-> -1, abort |-> TRUE]

\* BronKerbosch(cliqctx, P, X) with cliqctx->R = R.  calls holds the arrays
\* passed to the user callback so far; the result is calls extended, the
\* return value r, and abort.  BK_loop is the loop over P from index i on,
\* BK_visit its body for a v that is not skipped, with N = N(v) in newX,
\* BK_recurse the recursive call and BK_after what follows it.
RECURSIVE BronKerbosch(_, _, _, _, _, _, _)
RECURSIVE BK_loop(_, _, _, _, _, _, _, _, _, _)
RECURSIVE BK_visit(_, _, _, _, _, _, _, _, _, _, _)
RECURSIVE BK_recurse(_, _, _, _, _, _, _, _, _, _, _, _)
RECURSIVE BK_after(_, _, _, _, _, _, _, _, _, _)

BronKerbosch(G, R, P, X, calls, stop, value) ==
    IF Len(P.nodes) = 0
    THEN IF X_is_empty(X)
         THEN [calls |-> Append(calls, R.nodes),
               r |-> callback(Len(calls) + 1, stop, value),
               abort |-> FALSE]
         ELSE [calls |-> calls, r |-> 0, abort |-> FALSE]
    ELSE BK_loop(G, R, P, X, nodeset_clear, 1, choose_pivot(G, P, X),
                 calls, stop, value)

BK_loop(G, R, P, X, still_in_P, i, pivot, calls, stop, value) ==
    IF still_in_P.abort \/ X.abort
    THEN Aborted(calls)
    ELSE IF i > Len(P.nodes)
    THEN [calls |-> calls, r |-> 0, abort |-> FALSE]
    ELSE IF graph_edge_exists(G, pivot, P.nodes[i])
    THEN BK_loop(G, R, P, X, still_in_P_add(still_in_P, P.nodes[i]), i + 1,
                 pivot, calls, stop, value)
    ELSE BK_visit(G, R, P, X, still_in_P, i, pivot,
                  collect_neighbours(G.node_os[P.nodes[i]].out_edges, 1,
                                     nodeset_clear),
                  calls, stop, value)

BK_visit(G, R, P, X, still_in_P, i, pivot, N, calls, stop, value) ==
    IF N.abort
    THEN Aborted(calls)
    ELSE BK_recurse(G, R, P, X, still_in_P, i, pivot, N,
                    restrict_into(restrict_into(nodeset_clear,
                                                still_in_P.nodes, 1, N),
                                  P.nodes, i + 1, N),
                    calls, stop, value)

BK_recurse(G, R, P, X, still_in_P, i, pivot, N, newP, calls, stop, value) ==
    IF newP.abort
    THEN Aborted(calls)
    ELSE BK_after(G, R, P, X, still_in_P, i, pivot,
                  BronKerbosch(G, nodeset_append(R, P.nodes[i]), newP,
                               nodeset_intersect(N, X), calls, stop, value),
                  stop, value)

BK_after(G, R, P, X, still_in_P, i, pivot, res, stop, value) ==
    IF res.abort \/ Stops(res.r)
    THEN res
    ELSE BK_loop(G, R, P, X_add(X, P.nodes[i]), still_in_P, i + 1, pivot,
                 res.calls, stop, value)

\* STAILQ_FOREACH(node, &comp->nodes, complink) nodeset_append(P, node)
RECURSIVE append_members(_, _, _)
append_members(members, k, P) ==
    IF k > Len(members) THEN P
    ELSE append_members(members, k + 1, nodeset_append(P, members[k]))

\* component_iterate_maximal_cliques(comp, callback, ctx) for the Component
\* with the STAILQ members, after the invocations calls
component_iterate_maximal_cliques(G, members, calls, stop, value) ==
    BronKerbosch(G, nodeset_clear,
                 nodeset_sort(append_members(members, 1, nodeset_clear)),
                 nodeset_clear, calls, stop, value)

required_flags == GRAPH_NOPARALLEL + GRAPH_NOLOOP + GRAPH_DUAL

\* the TAILQ_FOREACH of graph_iterate_maximal_cliques from the i-th
\* Component on; res is the result for the Component before it
RECURSIVE cliques_from(_, _, _, _, _)
cliques_from(G, i, stop, value, res) ==
    IF res.abort \/ Stops(res.r)
    THEN res
    ELSE IF i > Len(G.components)
    THEN [calls |-> res.calls, r |-> 0, abort |-> FALSE]
    ELSE cliques_from(G, i + 1, stop, value,
             component_iterate_maximal_cliques(G, G.components[i].nodes,
                                               res.calls, stop, value))

graph_iterate_maximal_cliques_NoCheck(G, stop, value) ==
    cliques_from(G, 1, stop, value, [calls |-> <<>>, r |-> 0, abort |-> FALSE])

graph_iterate_maximal_cliques(G, stop, value) ==
    IF \/ ~HasFlag(G.flags, GRAPH_NOPARALLEL)
       \/ ~HasFlag(G.flags, GRAPH_NOLOOP)
       \/ ~HasFlag(G.flags, GRAPH_DUAL)
    THEN [calls |-> <<>>, r |-> -1, abort |-> FALSE]
    ELSE cliques_from(G, 1, stop, value,
                      [calls |-> <<>>, r |-> 0, abort |-> FALSE])

CliqueOps ==
    {"component_iterate_maximal_cliques", "graph_iterate_maximal_cliques"}

\* the result of the clique iterator op on G, for the Component at position
\* pos of the component list where op takes a Component
CliqueIteration(op, G, pos, stop, value) ==
    IF op = "component_iterate_maximal_cliques"
    THEN component_iterate_maximal_cliques(G, G.components[pos].nodes, <<>>,
                                           stop, value)
    ELSE graph_iterate_maximal_cliques(G, stop, value)

(***************************************************************************)
(* graph_add_file.  A line is the sequence of its characters without the   *)
(* final newline; the character SP stands for the delimiters (blank, tab), *)
(* every other character is a positive number.  An identifier string is    *)
(* given by the number that has its characters as decimal digits.          *)
(***************************************************************************)
SP == 0

\* the string chars as an identifier
RECURSIVE StrId(_)
StrId(chars) ==
    IF chars = <<>> THEN 0
    ELSE 10 * StrId(SubSeq(chars, 1, Len(chars) - 1)) + chars[Len(chars)]

\* strtok_r: the first index from i on that does not hold a delimiter
RECURSIVE SkipDelims(_, _)
SkipDelims(line, i) ==
    IF i <= Len(line) /\ line[i] = SP THEN SkipDelims(line, i + 1) ELSE i

\* strtok_r: the first index from i on that holds a delimiter or ends line
RECURSIVE TokenEnd(_, _)
TokenEnd(line, i) ==
    IF i <= Len(line) /\ line[i] # SP THEN TokenEnd(line, i + 1) ELSE i

\* strtok_r(.., " \t\n", &save) scanning line from index save on: the token
\* found (NULL if there is none) and the index the next scan starts from
strtok_r(line, save) ==
    LET b == SkipDelims(line, save)
        e == TokenEnd(line, b)
    IN  IF b > Len(line)
        THEN [tok |-> NULL, save |-> b]
        ELSE [tok |-> StrId(SubSeq(line, b, e - 1)), save |-> e + 1]

\* the body of the while loop of graph_add_file for one line, with the
\* tokens nstr1 and nstr2; the result of the call it makes, if any
add_file_call(G, sel, nstr1, nstr2, F) ==
    IF nstr1 = NULL
    THEN [g |-> G, rv |-> 0, crash |-> FALSE, failed |-> FALSE]
    ELSE IF nstr2 = NULL
    THEN graph_add_node(G, sel, nstr1, F)
    ELSE graph_add_edge(G, sel, nstr1, nstr2, F)

add_file_second_Never(line, t1) == NULL

\* nstr2 = strtok_r(NULL, " \t\n", &nstr2), after the first token t1
add_file_second(line, t1) ==
    IF t1.tok = NULL THEN NULL ELSE strtok_r(line, t1.save).tok

add_file_line(G, sel, line, F) ==
    add_file_call(G, sel, strtok_r(line, 1).tok,
                  add_file_second(line, strtok_r(line, 1)), F)

(***************************************************************************)
(* The state machine.  A Graph is initialised and then receives add_node   *)
(* and add_edge calls with identifiers of Idents.  Under Spec the calls    *)
(* start on the empty Graph; under SpecResize they start on a Graph that   *)
(* earlier add_node calls have filled up to one Node below the first       *)
(* resize threshold.                                                       *)
(***************************************************************************)

\* flag words graph_init accepts
ValidFlags ==
    {f \in 0..15 : ~(HasFlag(f, GRAPH_UNDIRECTED) /\ HasFlag(f, GRAPH_DUAL))}

\* obstack_alloc takes its chunks from xmalloc, which exits the process
\* instead of returning NULL: the allocations that can fail and return are
\* the malloc of a Component and the malloc of a larger bucket array
FailPoints == {"comp", "resize"}

\* the obstack allocations of a call, each of which may need a new chunk:
\* the Nodes of the first and second identifier, the Edge of the first and
\* second do_add_edge
ChunkPoints == {"node1", "node2", "edge1", "edge2"}

\* the sets of failing allocations a call on G is tried with: a call
\* allocates at most two Nodes, so it can only reach the resize when
\* node_count is within two of the threshold; the process ends at the
\* first failing chunk allocation, so one of them at a time is tried
FailSets(G) ==
    (IF G.node_count + 2 > G.resize_threshold
     THEN SUBSET FailPoints
     ELSE SUBSET (FailPoints \ {"resize"}))
    \cup {{p} : p \in ChunkPoints}

\* the Graph G after further successful add_node calls with fresh
\* identifiers, up to n Nodes
RECURSIVE FillTo(_, _, _)
FillTo(G, sel, n) ==
    IF G.node_count >= n
    THEN G
    ELSE FillTo(graph_add_node(G, sel, FillIdent(G.node_count + 1), {}).g,
                sel, n)

\* the Graph after graph_init and k successful add_node calls
Prefilled(sel, flags, k) == FillTo(graph_init(flags, FALSE).g, sel, k)

InitWith(k) ==
    /\ hashsel \in HashFamily
    /\ \E flags \in ValidFlags : g = Prefilled(hashsel, flags, k)
    /\ seenIds = {FillIdent(i) : i \in 1..k}
    /\ pre = g
    /\ last = [op |-> "none", s1 |-> 0, s2 |-> 0, rv |-> 0, failed |-> FALSE,
               exited |-> FALSE, again |-> FALSE, reverse |-> FALSE]
    /\ seenArcs = {}
    /\ allocfailed = FALSE
    /\ crashed = FALSE
    /\ ncalls = 0
    /\ OthersIdle

Init == InitWith(0)

\* the state after a graph_init call with any flag word up to MaxFlagWord;
\* a Graph whose graph_init failed is not passed to any other function
InitAny ==
    /\ hashsel \in HashFamily
    /\ \E flags \in 0..MaxFlagWord, fail \in BOOLEAN :
          \E r \in {graph_init(flags, fail)} :
              /\ g = r.g
              /\ last = [op |-> "init", s1 |-> flags, s2 |-> 0, rv |-> r.rv,
                         failed |-> r.failed, exited |-> FALSE,
                         again |-> FALSE, reverse |-> FALSE]
              /\ allocfailed = r.failed
    /\ pre = g
    /\ seenIds = {}
    /\ seenArcs = {}
    /\ crashed = FALSE
    /\ ncalls = 0
    /\ OthersIdle

InitFailed == last.op = "init" /\ last.rv = -1

InitResize == InitWith(Prefill)

\* Identifiers are interchangeable, so a run takes them into use in
\* increasing order: a call may pass a new identifier only if every smaller
\* one of Idents was passed before.  (Both relative orders of hash values
\* and of allocation still occur, through HashFamily.)
InUse == seenIds \cap Idents

MayPass(s, used) == \A t \in Idents : t < s => t \in used

AddNode(nstr, F) ==
    /\ ~InitFailed
    /\ ~crashed
    /\ ncalls < MaxCalls
    /\ MayPass(nstr, InUse)
    /\ ncalls' = ncalls + 1
    /\ \E r \in {graph_add_node(g, hashsel, nstr, F)} :
           /\ g' = r.g
           /\ pre' = g
           /\ crashed' = r.crash
           /\ last' = [op |-> "add_node", s1 |-> nstr, s2 |-> nstr,
                       rv |-> r.rv, failed |-> r.failed,
                       exited |-> r.crash /\ F \cap ChunkPoints # {},
                       again |-> FALSE, reverse |-> FALSE]
           /\ allocfailed' = (allocfailed \/ r.failed)
           /\ seenIds' = IF r.rv >= 0 /\ ~r.crash THEN seenIds \cup {nstr}
                         ELSE seenIds
    /\ UNCHANGED <<hashsel, seenArcs>>
    /\ UNCHANGED others

AddEdge(s1, s2, F) ==
    /\ ~InitFailed
    /\ ~crashed
    /\ ncalls < MaxCalls
    /\ MayPass(s1, InUse)
    /\ MayPass(s2, InUse \cup {s1})
    /\ ncalls' = ncalls + 1
    /\ \E r \in {graph_add_edge(g, hashsel, s1, s2, F)} :
           /\ g' = r.g
           /\ pre' = g
           /\ crashed' = r.crash
           /\ last' = [op |-> "add_edge", s1 |-> s1, s2 |-> s2,
                       rv |-> r.rv, failed |-> r.failed,
                       exited |-> r.crash /\ F \cap ChunkPoints # {},
                       again |-> <<s1, s2>> \in seenArcs,
                       reverse |-> <<s2, s1>> \in seenArcs]
           /\ allocfailed' = (allocfailed \/ r.failed)
           /\ seenIds' = IF r.rv >= 0 /\ ~r.crash THEN seenIds \cup {s1, s2}
                         ELSE seenIds
           /\ seenArcs' = IF r.rv >= 0 /\ ~r.crash
                          THEN seenArcs \cup {<<s1, s2>>}
                          ELSE seenArcs
    /\ UNCHANGED hashsel
    /\ UNCHANGED others

\* the failure sets the next call is tried with
Failures == IF InitFailed THEN {} ELSE FailSets(g)

Next ==
    \/ \E nstr \in Idents, F \in Failures : AddNode(nstr, F)
    \/ \E s1 \in Idents, s2 \in Idents, F \in Failures : AddEdge(s1, s2, F)

Spec == Init /\ [][Next]_vars

SpecResize == InitResize /\ [][Next]_vars

SpecInit == InitAny /\ [][Next]_vars

\* the calls in which no allocation fails except, where a call can reach
\* it, the malloc of the larger bucket array
ResizeFailures == {F \in Failures : F \subseteq {"resize"}}

NextGiveUp ==
    \/ \E nstr \in Idents, F \in ResizeFailures : AddNode(nstr, F)
    \/ \E s1 \in Idents, s2 \in Idents, F \in ResizeFailures :
          AddEdge(s1, s2, F)

SpecGiveUp == InitResize /\ [][NextGiveUp]_vars

\* a call of one of the iterators on the Graph, with a callback that stops
\* at its stop-th invocation with value, or never (stop = 0)
Iterate(op, pos, stop, value) ==
    /\ ~crashed
    /\ pos \in 1..Len(g.components)
    /\ op \in {"component_iterate_nodes", "component_iterate_edges"}
          \/ pos = 1
    /\ \E it \in {Iteration(op, g, pos, stop, value)} :
           last' = [op |-> op, s1 |-> 0, s2 |-> 0, rv |-> it.r,
                    failed |-> FALSE, exited |-> FALSE, again |-> FALSE,
                    reverse |-> FALSE, calls |-> it.calls, pos |-> pos,
                    stop |-> stop, value |-> value]
    /\ pre' = g
    /\ UNCHANGED <<g, hashsel, seenIds, seenArcs, allocfailed, crashed, ncalls>>
    /\ UNCHANGED others

\* The calls that build the Graph, none of them with a failing allocation,
\* and the iterators.  An iterator leaves everything but last and pre as it
\* was, so that the calls after it give nothing that the same calls in its
\* place do not give: the runs end with it.
NextIter ==
    \/ \E nstr \in Idents : last.op \notin IterOps /\ AddNode(nstr, {})
    \/ \E s1 \in Idents, s2 \in Idents :
          last.op \notin IterOps /\ AddEdge(s1, s2, {})
    \/ \E op \in IterOps, pos \in 1..MaxCalls, stop \in 0..MaxStop,
          value \in StopValues :
          last.op \notin IterOps /\ Iterate(op, pos, stop, value)

SpecIter == Init /\ [][NextIter]_vars

(***************************************************************************)
(* The clique search runs on Graphs with the flags it requires.  Under     *)
(* SpecClique the Graph is the one that add_edge calls for a set of pairs  *)
(* of identifiers build, passed in increasing or in decreasing order,      *)
(* followed by an add_node call for every identifier of CliqueIdents; no   *)
(* allocation fails.  The sets of pairs are all those over CliqueIdents,   *)
(* and those that join the identifier 1 to every other one of 1..WideNodes *)
(* and add some pairs of WidePairs: there the sets of the search reach the *)
(* length from which nodeset_contains searches by bisection.               *)
(***************************************************************************)
CliqueIdents == 1..MaxCliqueNodes

CliquePairs == {p \in CliqueIdents \X CliqueIdents : p[1] < p[2]}

HubPairs == {<<1, k>> : k \in 2..WideNodes}

WidePairs == {<<2, 3>>, <<2, 4>>, <<3, 4>>, <<4, 5>>, <<6, 8>>, <<7, 8>>}

CliqueShapes ==
    (SUBSET CliquePairs) \cup {HubPairs \cup S : S \in SUBSET WidePairs}

PairRank(p) == p[1] * (WideNodes + 1) + p[2]

\* the pair of E that is passed first
FirstPair(E, dir) ==
    CHOOSE p \in E : \A q \in E : dir * PairRank(p) <= dir * PairRank(q)

\* the Graph G after the add_edge calls for the pairs of E, as long as the
\* calls succeed; the calls in decreasing order pass the larger identifier
\* first.  r is the result of the call for the pair p.
RECURSIVE AddPairs(_, _, _, _)
AddPairsNext(sel, E, dir, p, r) ==
    IF r.rv = -1 THEN r.g ELSE AddPairs(r.g, sel, E \ {p}, dir)

AddPairsFrom(G, sel, E, dir, p) ==
    AddPairsNext(sel, E, dir, p,
                 IF dir = 1 THEN graph_add_edge(G, sel, p[1], p[2], {})
                 ELSE graph_add_edge(G, sel, p[2], p[1], {}))

AddPairs(G, sel, E, dir) ==
    IF E = {} THEN G ELSE AddPairsFrom(G, sel, E, dir, FirstPair(E, dir))

\* the Graph G after add_node calls for the identifiers k .. MaxCliqueNodes,
\* as long as the calls succeed; r is the result of the call for k
RECURSIVE AddIdents(_, _, _)
AddIdentsNext(sel, k, r) ==
    IF r.rv = -1 THEN r.g ELSE AddIdents(r.g, sel, k + 1)

AddIdents(G, sel, k) ==
    IF k > MaxCliqueNodes THEN G
    ELSE AddIdentsNext(sel, k, graph_add_node(G, sel, k, {}))

BuiltFrom(sel, E, dir) ==
    AddIdents(AddPairs(graph_init(required_flags, FALSE).g, sel, E, dir),
              sel, 1)

InitClique ==
    /\ hashsel \in HashFamily
    /\ \E E \in CliqueShapes, dir \in {1, -1} :
          /\ g = BuiltFrom(hashsel, E, dir)
          /\ seenArcs = E
          /\ seenIds = CliqueIdents \cup {p[1] : p \in E} \cup {p[2] : p \in E}
    /\ pre = g
    /\ last = [op |-> "none", s1 |-> 0, s2 |-> 0, rv |-> 0, failed |-> FALSE,
               exited |-> FALSE, again |-> FALSE, reverse |-> FALSE]
    /\ allocfailed = FALSE
    /\ crashed = FALSE
    /\ ncalls = 0
    /\ OthersIdle

\* a call of one of the clique iterators on the Graph, with a callback that
\* stops at its stop-th invocation with value, or never (stop = 0)
IterateCliques(op, pos, stop, value) ==
    /\ last.op \notin CliqueOps
    /\ ~crashed
    /\ pos \in 1..Len(g.components)
    /\ op = "component_iterate_maximal_cliques" \/ pos = 1
    /\ \E it \in {CliqueIteration(op, g, pos, stop, value)} :
           last' = [op |-> op, s1 |-> 0, s2 |-> 0, rv |-> it.r,
                    failed |-> FALSE, exited |-> FALSE, again |-> FALSE,
                    reverse |-> FALSE, calls |-> it.calls, pos |-> pos,
                    stop |-> stop, value |-> value, abort |-> it.abort]
    /\ pre' = g
    /\ UNCHANGED <<g, hashsel, seenIds, seenArcs, allocfailed, crashed, ncalls>>
    /\ UNCHANGED others

NextClique ==
    \E op \in CliqueOps, pos \in 1..WideNodes, stop \in 0..MaxStop,
       value \in StopValues :
       IterateCliques(op, pos, stop, value)

SpecClique == InitClique /\ [][NextClique]_vars

\* a call of graph_iterate_maximal_cliques on the Graph, whatever its flags
\* and also when it is empty
IterateGraphCliques(stop, value) ==
    /\ last.op \notin CliqueOps
    /\ ~crashed
    /\ \E it \in {graph_iterate_maximal_cliques(g, stop, value)} :
          last' = [op |-> "graph_iterate_maximal_cliques", s1 |-> 0,
                   s2 |-> 0, rv |-> it.r, failed |-> FALSE,
                   exited |-> FALSE, again |-> FALSE, reverse |-> FALSE,
                   calls |-> it.calls, pos |-> 1, stop |-> stop,
                   value |-> value, abort |-> it.abort]
    /\ pre' = g
    /\ UNCHANGED <<g, hashsel, seenIds, seenArcs, allocfailed, crashed, ncalls>>
    /\ UNCHANGED others

\* graph_iterate_maximal_cliques on the Graphs of every accepted flag word:
\* the calls that build the Graph, none of them with a failing allocation,
\* and then the search of the whole Graph, with which the runs end
NextFlags ==
    \/ \E nstr \in Idents : last.op \notin CliqueOps /\ AddNode(nstr, {})
    \/ \E s1 \in Idents, s2 \in Idents :
          last.op \notin CliqueOps /\ AddEdge(s1, s2, {})
    \/ \E stop \in 0..MaxStop, value \in StopValues :
          IterateGraphCliques(stop, value)

SpecFlags == Init /\ [][NextFlags]_vars

(***************************************************************************)
(* Reading a file.  Under SpecFile graph_add_file reads a stream that      *)
(* delivers up to MaxLines lines of FileLines and then ends, or fails;     *)
(* every allocation of the calls may fail.  After a return of 0, main of   *)
(* maximal_cliques runs the clique search.  Under SpecFileResize the Graph *)
(* was filled up to one Node below the first resize threshold before.      *)
(***************************************************************************)
FileLines ==
    {<<>>, <<SP>>, <<1>>, <<SP, 2>>, <<4>>, <<1, 2>>,
     <<1, SP, 2>>, <<2, SP, 3>>, <<3, SP, 1>>, <<2, SP, SP, 1, SP>>,
     <<1, SP, 1>>, <<1, SP, 2, SP, 3>>, <<3, SP, 4, SP, 4, SP, 1>>}

FileFlags == {0, GRAPH_UNDIRECTED, GRAPH_NOPARALLEL + GRAPH_DUAL, required_flags}

InitFileWith(k) ==
    /\ hashsel \in HashFamily
    /\ \E flags \in FileFlags : g = Prefilled(hashsel, flags, k)
    /\ seenIds = {FillIdent(i) : i \in 1..k}
    /\ pre = g
    /\ last = [op |-> "fopen", s1 |-> 0, s2 |-> 0, rv |-> 0, failed |-> FALSE,
               exited |-> FALSE, again |-> FALSE, reverse |-> FALSE,
               lines |-> <<>>]
    /\ seenArcs = {}
    /\ allocfailed = FALSE
    /\ crashed = FALSE
    /\ ncalls = 0
    /\ OthersIdle

InitFile == InitFileWith(0)

InitFileResize == InitFileWith(Prefill)

Reading == last.op \in {"fopen", "getline"}

\* getline delivers line and the loop body of graph_add_file runs; a call
\* that returns a negative value ends the loop, and graph_add_file returns
GetLine(line, F) ==
    /\ Reading
    /\ ~crashed
    /\ Len(last.lines) < MaxLines
    /\ \E r \in {add_file_line(g, hashsel, line, F)},
          t1 \in {strtok_r(line, 1).tok},
          t2 \in {add_file_second(line, strtok_r(line, 1))} :
           /\ g' = r.g
           /\ pre' = g
           /\ crashed' = r.crash
           /\ last' = [op |-> IF r.rv < 0 /\ ~r.crash THEN "graph_add_file"
                              ELSE "getline",
                       s1 |-> t1, s2 |-> t2,
                       rv |-> IF r.rv < 0 THEN -1 ELSE 0,
                       failed |-> r.failed,
                       exited |-> r.crash /\ F \cap ChunkPoints # {},
                       again |-> FALSE, reverse |-> FALSE,
                       lines |-> Append(last.lines, line)]
           /\ allocfailed' = (allocfailed \/ r.failed)
           /\ seenIds' = IF r.rv >= 0 /\ ~r.crash
                         THEN seenIds \cup ({t1, t2} \ {NULL})
                         ELSE seenIds
           /\ seenArcs' = IF r.rv >= 0 /\ ~r.crash /\ t2 # NULL
                          THEN seenArcs \cup {<<t1, t2>>}
                          ELSE seenArcs
    /\ UNCHANGED <<hashsel, ncalls>>
    /\ UNCHANGED others

\* getline returns -1, at the end of the stream or (err) on a read error,
\* and graph_add_file returns
EndOfFile(err) ==
    /\ Reading
    /\ ~crashed
    /\ last' = [op |-> "graph_add_file", s1 |-> NULL, s2 |-> NULL,
                rv |-> IF err THEN -1 ELSE 0, failed |-> FALSE,
                exited |-> FALSE, again |-> FALSE, reverse |-> FALSE,
                lines |-> last.lines, ferror |-> err]
    /\ pre' = g
    /\ UNCHANGED <<g, hashsel, seenIds, seenArcs, allocfailed, crashed, ncalls>>
    /\ UNCHANGED others

\* main of maximal_cliques after graph_add_file returned 0: the search
\* with print_clique_cb, which returns 0 at every invocation
MainCliques ==
    /\ last.op = "graph_add_file"
    /\ last.rv = 0
    /\ \E it \in {graph_iterate_maximal_cliques(g, 0, 0)} :
          last' = [op |-> "maximal_cliques", s1 |-> NULL, s2 |-> NULL,
                   rv |-> it.r, failed |-> FALSE, exited |-> FALSE,
                   again |-> FALSE, reverse |-> FALSE, lines |-> last.lines,
                   calls |-> it.calls, stop |-> 0, value |-> 0,
                   abort |-> it.abort]
    /\ pre' = g
    /\ UNCHANGED <<g, hashsel, seenIds, seenArcs, allocfailed, crashed, ncalls>>
    /\ UNCHANGED others

NextFile ==
    \/ \E line \in FileLines, F \in FailSets(g) : GetLine(line, F)
    \/ \E err \in BOOLEAN : EndOfFile(err)
    \/ MainCliques

SpecFile == InitFile /\ [][NextFile]_vars

SpecFileResize == InitFileResize /\ [][NextFile]_vars

(***************************************************************************)
(* The round trip of a Component: component_iterate_edges with a callback  *)
(* that passes the identifiers of every pair to graph_add_edge on a second *)
(* Graph, initialised with the flags of the first, and returns 0.          *)
(***************************************************************************)
\* the second Graph H after the calls for the pairs calls[k], calls[k + 1],
\* ...; r is the result of the call for calls[k]
RECURSIVE Reinsert(_, _, _, _, _)
ReinsertNext(G, H, sel, calls, k, r) ==
    IF r.rv = -1 THEN r.g ELSE Reinsert(G, r.g, sel, calls, k + 1)

Reinsert(G, H, sel, calls, k) ==
    IF k > Len(calls) THEN H
    ELSE ReinsertNext(G, H, sel, calls, k,
                      graph_add_edge(H, sel, G.node_os[calls[k][1]].ident,
                                     G.node_os[calls[k][2]].ident, {}))

\* the round trip of the Component at position pos of the component list
RoundTrip(pos) ==
    /\ last.op # "round_trip"
    /\ ~crashed
    /\ pos \in 1..Len(g.components)
    /\ \E it \in {component_iterate_edges(g, g.components[pos].nodes, 1, 1,
                                          <<>>, 0, 0, 0)} :
          last' = [op |-> "round_trip", s1 |-> 0, s2 |-> 0, rv |-> it.r,
                   failed |-> FALSE, exited |-> FALSE, again |-> FALSE,
                   reverse |-> FALSE, calls |-> it.calls, pos |-> pos,
                   fresh |-> Reinsert(g, graph_init(g.flags, FALSE).g, hashsel,
                                      it.calls, 1)]
    /\ pre' = g
    /\ UNCHANGED <<g, hashsel, seenIds, seenArcs, allocfailed, crashed, ncalls>>
    /\ UNCHANGED others

\* The calls that build the Graph, none of them with a failing allocation,
\* and the round trip of one of the Components the calls made (these are
\* the last ones of the component list), with which the runs end.
NextRoundTrip ==
    \/ \E nstr \in Idents : last.op # "round_trip" /\ AddNode(nstr, {})
    \/ \E s1 \in Idents, s2 \in Idents :
          last.op # "round_trip" /\ AddEdge(s1, s2, {})
    \/ \E back \in 1..MaxCalls : RoundTrip(Len(g.components) - back + 1)

SpecRoundTrip == Init /\ [][NextRoundTrip]_vars

SpecRoundTripResize == InitResize /\ [][NextRoundTrip]_vars

(***************************************************************************)
(* tailq_sort.  The elements of the TAILQ are numbered 1..n in the order   *)
(* in which TAILQ_INSERT_TAIL put them on the list (the field orig of      *)
(* struct test).  A pointer to an element is its number, NULL is no        *)
(* element; a pointer to a pointer (tqe_prev, tqh_last) is the number of   *)
(* the element whose tqe_next it points to, or HEAD for the tqh_first of   *)
(* the head.                                                               *)
(***************************************************************************)
HEAD == 0

\* cmp_test: the difference of the values
cmp_test(Q, a, b) == Q.value[a] - Q.value[b]

\* the test of line 69: the element of the x sublist stays in front
TakesX_Strict(c) == c < 0

TakesX(c) == c <= 0

\* *p = e for a pointer p to a pointer
StoreAt(Q, p, e) ==
    IF p = HEAD THEN [Q EXCEPT !.tqh_first = e]
    ELSE [Q EXCEPT !.tqe_next[p] = e]

\* a list of n elements made by TAILQ_INIT and TAILQ_INSERT_TAIL, with the
\* locals of tailq_sort not yet set
NewTailq(values) ==
    LET n == Len(values)
    IN  [pc |-> "call", value |-> values,
         tqh_first |-> IF n = 0 THEN NULL ELSE 1,
         tqh_last |-> n,
         tqe_next |-> [e \in 1..n |-> IF e = n THEN NULL ELSE e + 1],
         tqe_prev |-> [e \in 1..n |-> e - 1],
         x |-> NULL, y |-> NULL, pwr2 |-> 0, merges |-> 0,
         xsize |-> 0, ysize |-> 0]

TAILQ_REMOVE_KeepLast(Q, elm) ==
    LET nx == Q.tqe_next[elm]
        Q1 == IF nx # NULL
              THEN [Q EXCEPT !.tqe_prev[nx] = Q.tqe_prev[elm]]
              ELSE Q
    IN  StoreAt(Q1, Q.tqe_prev[elm], nx)

TAILQ_REMOVE(Q, elm) ==
    LET nx == Q.tqe_next[elm]
        Q1 == IF nx # NULL
              THEN [Q EXCEPT !.tqe_prev[nx] = Q.tqe_prev[elm]]
              ELSE [Q EXCEPT !.tqh_last = Q.tqe_prev[elm]]
    IN  StoreAt(Q1, Q.tqe_prev[elm], nx)

TAILQ_INSERT_BEFORE(Q, listelm, elm) ==
    LET Q1 == [Q EXCEPT !.tqe_prev[elm] = Q.tqe_prev[listelm],
                        !.tqe_next[elm] = listelm]
        Q2 == StoreAt(Q1, Q.tqe_prev[listelm], elm)
    IN  [Q2 EXCEPT !.tqe_prev[listelm] = elm]

\* the for loop of lines 50-52, from y = e and xsize = k
RECURSIVE SkipSublist(_, _, _)
SkipSublist(Q, e, k) ==
    IF e # NULL /\ k < Q.pwr2
    THEN SkipSublist(Q, Q.tqe_next[e], k + 1)
    ELSE [Q EXCEPT !.y = e, !.xsize = k]

\* the do-while loop of lines 63-66
RECURSIVE SkipRest(_)
SkipRest(Q) ==
    LET Q1 == [Q EXCEPT !.y = Q.tqe_next[Q.y], !.ysize = @ - 1]
    IN  IF Q1.ysize > 0 /\ Q1.y # NULL THEN SkipRest(Q1) ELSE Q1

\* line 83, after the merge loop has ended
MergeDone(Q) == [Q EXCEPT !.x = Q.y, !.pc = "pairs"]

\* lines 37-44: the call, up to the first pass
sort_enter(Q) ==
    IF Q.tqh_first = NULL
    THEN [Q EXCEPT !.pc = "done"]
    ELSE [Q EXCEPT !.pwr2 = 1, !.x = Q.tqh_first, !.merges = 0,
                   !.pc = "pairs"]

\* lines 46-54: the start of the merge of two sublists
pair_start(Q) ==
    [SkipSublist([Q EXCEPT !.merges = @ + 1], Q.x, 0)
        EXCEPT !.ysize = Q.pwr2, !.pc = "merge"]

\* lines 55-82: one test of the loop condition and one round of the body
merge_step(Q) ==
    IF ~(Q.xsize > 0 \/ (Q.ysize > 0 /\ Q.y # NULL))
    THEN MergeDone(Q)
    ELSE IF Q.ysize = 0 \/ Q.y = NULL
    THEN MergeDone(Q)
    ELSE IF Q.xsize = 0
    THEN MergeDone(SkipRest(Q))
    ELSE IF TakesX(cmp_test(Q, Q.x, Q.y))
    THEN [Q EXCEPT !.xsize = @ - 1, !.x = Q.tqe_next[Q.x]]
    ELSE LET tmp == Q.tqe_next[Q.y]
         IN  [TAILQ_INSERT_BEFORE(TAILQ_REMOVE(Q, Q.y), Q.x, Q.y)
                 EXCEPT !.ysize = @ - 1, !.y = tmp]

\* lines 85-87 and, for another pass, lines 42-44
pass_end(Q) ==
    IF Q.merges <= 1
    THEN [Q EXCEPT !.pc = "done"]
    ELSE [Q EXCEPT !.pwr2 = 2 * @, !.x = Q.tqh_first, !.merges = 0]

\* the lists of the test: every length up to MaxSortLen, every assignment
\* of values
SortInputs ==
    UNION {[1..n -> 1..MaxValue] : n \in 0..MaxSortLen}

GraphIdle ==
    /\ hashsel = "collide"
    /\ g = graph_init(0, FALSE).g
    /\ pre = g
    /\ last = [op |-> "none", s1 |-> 0, s2 |-> 0, rv |-> 0, failed |-> FALSE,
               exited |-> FALSE, again |-> FALSE, reverse |-> FALSE]
    /\ seenIds = {}
    /\ seenArcs = {}
    /\ allocfailed = FALSE
    /\ crashed = FALSE
    /\ ncalls = 0

InitSort ==
    /\ GraphIdle
    /\ \E values \in SortInputs : tailq = NewTailq(values)
    /\ splitcol = Idle
    /\ pool = Idle
    /\ cliq = Idle

SortEnter ==
    /\ tailq.pc = "call"
    /\ tailq' = sort_enter(tailq)
    /\ UNCHANGED <<graphvars, splitcol, pool>>

PairStart ==
    /\ tailq.pc = "pairs"
    /\ tailq.x # NULL
    /\ tailq' = pair_start(tailq)
    /\ UNCHANGED <<graphvars, splitcol, pool>>

MergeStep ==
    /\ tailq.pc = "merge"
    /\ tailq' = merge_step(tailq)
    /\ UNCHANGED <<graphvars, splitcol, pool>>

PassEnd ==
    /\ tailq.pc = "pairs"
    /\ tailq.x = NULL
    /\ tailq' = pass_end(tailq)
    /\ UNCHANGED <<graphvars, splitcol, pool>>

NextSort == SortEnter \/ PairStart \/ MergeStep \/ PassEnd

SpecSort == InitSort /\ [][NextSort]_vars

\* tailq_sort is an ordinary function call: it runs on until it returns
SpecSortFair == SpecSort /\ WF_vars(NextSort)

(***************************************************************************)
(* split_col.  An input file is the sequence of the values its lines have  *)
(* in the selected column (NoColumn: the line has too few columns).  A     *)
(* line is known by the input file and its line number, <<f, i>>.  An      *)
(* output file name is prefix . value . suffix: the pair <<t, v>> where t  *)
(* is FromTemplate under --template and otherwise the number of the input  *)
(* file whose name gave prefix and suffix.                                 *)
(***************************************************************************)
NoColumn == 0
FromTemplate == 0

\* what a file of the output directory holds before the run
OldContent == <<<<0, 0>>>>

OutNames == (0..MaxInputs) \X (1..MaxColValue)

\* compute_prefix_suffix, unless --template gave prefix and suffix
compute_prefix_suffix(S, f) ==
    IF S.template THEN S ELSE [S EXCEPT !.prefix = f]

compute_outfn(S, x) == <<S.prefix, x>>

\* list_remove_last and the rest of close_lru_file
close_lru_file(S) ==
    LET fn == S.lru[Len(S.lru)]
    IN  [S EXCEPT !.lru = SubSeq(@, 1, Len(@) - 1),
                  !.outfiles[fn] = "closed",
                  !.number_of_open_files = @ - 1]

\* the loop of open_read, open_write and open_append: the open fails with
\* EMFILE or ENFILE j times, and each time the least recently used output
\* file is closed
RECURSIVE open_retry(_, _)
open_retry(S, j) ==
    IF j = 0 THEN S
    ELSE IF S.number_of_open_files = 0 THEN [S EXCEPT !.pc = "died"]
    ELSE open_retry(close_lru_file(S), j - 1)

open_read(S, j) == open_retry(S, j)

\* open($h, '>', $fn) truncates the file; the header line is printed to it
open_write(S, fn, j) ==
    LET S1 == open_retry(S, j)
    IN  IF S1.pc = "died" THEN S1
        ELSE [S1 EXCEPT !.disk[fn] = S1.headerline]

open_append_Truncate(S, fn, j) ==
    LET S1 == open_retry(S, j)
    IN  IF S1.pc = "died" THEN S1
        ELSE [S1 EXCEPT !.disk[fn] = <<>>, !.reopened = @ \cup {fn}]

\* open($h, '>>', $fn) leaves the content of the file as it is
\* (reopened records the files this was done to)
open_append(S, fn, j) ==
    LET S1 == open_retry(S, j)
    IN  IF S1.pc = "died" THEN S1
        ELSE [S1 EXCEPT !.reopened = @ \cup {fn}]

list_insert_head(S, fn) == [S EXCEPT !.lru = <<fn>> \o @]

list_move_to_front_Stay(S, fn) == S

list_move_to_front(S, fn) ==
    [S EXCEPT !.lru = <<fn>> \o SelectSeq(@, LAMBDA e : e # fn)]

\* get_output_handle followed by the print of do_input_file
print_handle(S, fn, line) ==
    IF S.pc = "died" THEN S
    ELSE [list_insert_head(S, fn) EXCEPT
             !.outfiles[fn] = "open",
             !.number_of_open_files = @ + 1,
             !.disk[fn] = Append(@, line)]

get_output_handle(S, fn, line, j) ==
    IF S.outfiles[fn] = "open"
    THEN [list_move_to_front(S, fn) EXCEPT !.disk[fn] = Append(@, line)]
    ELSE IF S.outfiles[fn] = "closed"
    THEN print_handle(open_append(S, fn, j), fn, line)
    ELSE print_handle(open_write(S, fn, j), fn, line)

\* do_input_file up to its loop: the input file f is opened, its first
\* line is taken as the header line under --header
start_input(S, f, j) ==
    LET S1 == open_read(S, j)
        hashead == S.header /\ Len(S.argv[f]) >= 1
    IN  IF S1.pc = "died" THEN S1
        ELSE [compute_prefix_suffix(S1, f) EXCEPT
                 !.inp = f,
                 !.pos = IF hashead THEN 1 ELSE 0,
                 !.headerline =
                     IF hashead THEN <<<<f, 1>>>>
                     ELSE IF S.header THEN <<>> ELSE S.headerline,
                 !.pc = "lines"]

\* one round of the loop of do_input_file
split_line(S, j) ==
    LET i == S.pos + 1
        x == S.argv[S.inp][i]
    IN  IF x = NoColumn
        THEN [S EXCEPT !.pc = "died"]
        ELSE get_output_handle([S EXCEPT !.pos = i], compute_outfn(S, x),
                               <<S.inp, i>>, j)

\* the loop that closes the output files when the last input is read
RECURSIVE close_all(_)
close_all(S) ==
    IF S.number_of_open_files > 0 THEN close_all(close_lru_file(S))
    ELSE [S EXCEPT !.pc = "done"]

InputFiles == UNION {[1..n -> NoColumn..MaxColValue] : n \in 0..MaxFileLines}

Arguments == UNION {[1..n -> InputFiles] : n \in 1..MaxInputs}

InitSplit ==
    /\ GraphIdle
    /\ tailq = Idle
    /\ pool = Idle
    /\ cliq = Idle
    /\ \E argv \in Arguments, header \in BOOLEAN, template \in BOOLEAN :
          splitcol = [pc |-> "next", argv |-> argv, header |-> header,
                      template |-> template, prefix |-> FromTemplate,
                      inp |-> 0, pos |-> 0, headerline |-> <<>>,
                      outfiles |-> [fn \in OutNames |-> "none"],
                      lru |-> <<>>, number_of_open_files |-> 0,
                      disk |-> [fn \in OutNames |-> OldContent],
                      reopened |-> {}]

AtEndOfInput ==
    /\ splitcol.pc = "lines"
    /\ splitcol.pos = Len(splitcol.argv[splitcol.inp])

\* the next input file of the command line is opened
StartInput(j) ==
    /\ splitcol.pc = "next" \/ AtEndOfInput
    /\ splitcol.inp < Len(splitcol.argv)
    /\ j \in 0..(splitcol.number_of_open_files + 1)
    /\ splitcol' = start_input(splitcol, splitcol.inp + 1, j)
    /\ UNCHANGED <<graphvars, tailq, pool>>

SplitLine(j) ==
    /\ splitcol.pc = "lines"
    /\ splitcol.pos < Len(splitcol.argv[splitcol.inp])
    /\ j \in 0..(splitcol.number_of_open_files + 1)
    /\ splitcol' = split_line(splitcol, j)
    /\ UNCHANGED <<graphvars, tailq, pool>>

CloseOutputs ==
    /\ AtEndOfInput
    /\ splitcol.inp = Len(splitcol.argv)
    /\ splitcol' = close_all(splitcol)
    /\ UNCHANGED <<graphvars, tailq, pool>>

NextSplit ==
    \/ \E j \in 0..(MaxInputs * MaxFileLines + 1) : StartInput(j)
    \/ \E j \in 0..(MaxInputs * MaxFileLines + 1) : SplitLine(j)
    \/ CloseOutputs

SpecSplit == InitSplit /\ [][NextSplit]_vars

(***************************************************************************)
(* tmppool.  Objects are numbered in the order of their malloc.  The       *)
(* union of struct tmppool_obj is one field u, written either as the list  *)
(* link (tag "list") or as the cpu number (tag "cpu"); reading it as the   *)
(* member that was not written last gives any value.  Each thread is at    *)
(* one of the steps of tmppool_get or tmppool_put, or outside both; held   *)
(* are the objects tmppool_get returned to it that it has not yet passed   *)
(* to tmppool_put.                                                         *)
(***************************************************************************)
Threads == 1..NThreads
Cpus == 0..MaxCpu
PoolMask == Pow2(PoolBits) - 1
Lists == 0..PoolMask

Objs(P) == 1..Len(P.u)

\* the values a read of t->list.sle_next may give
ReadLink(P, t) ==
    IF P.u[t].tag = "list" THEN {P.u[t].v} ELSE {NULL} \cup Objs(P)

\* the values a read of t->cpu may give
ReadCpu(P, t) ==
    IF P.u[t].tag = "cpu" THEN {P.u[t].v} ELSE Cpus

\* a thread that is in neither function and holds the objects H; the
\* locals of a call end with the call
Outside(H) == [pc |-> "out", cpu |-> 0, i |-> 0, t |-> NULL, held |-> H]

\* TMPPOOL_DECLARE: empty lists, unlocked mutexes, no thread in a call
NewPool ==
    [pc |-> "run",
     head |-> [i \in Lists |-> NULL],
     mtx |-> [i \in Lists |-> 0],
     u |-> <<>>,
     th |-> [p \in Threads |-> Outside({})]]

\* lines 114-115
get_enter(P, p, cpu) ==
    [P EXCEPT !.th[p].cpu = cpu, !.th[p].i = BitAnd(cpu, PoolMask),
              !.th[p].pc = "g_lock"]

pthread_mutex_lock(P, p, i, pc) ==
    [P EXCEPT !.mtx[i] = p, !.th[p].pc = pc]

pthread_mutex_unlock(P, p, i, pc) ==
    [P EXCEPT !.mtx[i] = 0, !.th[p].pc = pc]

SLIST_REMOVE_HEAD_Keep(P, i, nx) == P

\* SLIST_REMOVE_HEAD, where nx is what the read of the link gave
SLIST_REMOVE_HEAD(P, i, nx) == [P EXCEPT !.head[i] = nx]

\* lines 119-121
get_first(P, p, nx) ==
    LET i == P.th[p].i
        t == P.head[i]
    IN  IF t # NULL
        THEN [SLIST_REMOVE_HEAD(P, i, nx) EXCEPT
                 !.th[p].t = t, !.th[p].pc = "g_unlock_hit"]
        ELSE [P EXCEPT !.th[p].t = NULL, !.th[p].pc = "g_unlock_miss"]

\* lines 123-124
get_return(P, p) ==
    LET t == P.th[p].t
    IN  [P EXCEPT !.u[t] = [tag |-> "cpu", v |-> P.th[p].cpu],
                  !.th[p] = Outside(@.held \cup {t})]

\* lines 126-129
get_miss(P, p) ==
    LET i == BitAnd(P.th[p].i + 1, PoolMask)
    IN  pthread_mutex_unlock([P EXCEPT !.th[p].i = i], p, P.th[p].i,
            IF i # BitAnd(P.th[p].cpu, PoolMask) THEN "g_lock" ELSE "g_alloc")

\* tmppool_alloc and the return of line 131; malloc returns NULL when
\* fail, and does so when MaxObjs objects exist
tmppool_alloc(P, p, fail) ==
    IF fail \/ Len(P.u) >= MaxObjs
    THEN [P EXCEPT !.th[p] = Outside(@.held)]
    ELSE [P EXCEPT !.u = Append(@, [tag |-> "cpu", v |-> P.th[p].cpu]),
                   !.th[p] = Outside(@.held \cup {Len(P.u) + 1})]

\* lines 140-141, where cpu is what the read of t->cpu gave
put_enter(P, p, t, cpu) ==
    [P EXCEPT !.th[p].held = @ \ {t},
              !.th[p].t = t,
              !.th[p].i = BitAnd(cpu, PoolMask),
              !.th[p].pc = "p_lock"]

\* line 145 and the return
put_return(P, p) ==
    [pthread_mutex_unlock(P, p, P.th[p].i, "out") EXCEPT
        !.th[p] = Outside(@.held)]

\* line 144
SLIST_INSERT_HEAD(P, p) ==
    LET i == P.th[p].i
        t == P.th[p].t
    IN  [P EXCEPT !.u[t] = [tag |-> "list", v |-> P.head[i]],
                  !.head[i] = t,
                  !.th[p].t = NULL,
                  !.th[p].pc = "p_unlock"]

InitPool ==
    /\ GraphIdle
    /\ tailq = Idle
    /\ splitcol = Idle
    /\ cliq = Idle
    /\ pool = NewPool

At(p, pc) == pool.th[p].pc = pc

GetEnter(p, cpu) ==
    /\ At(p, "out")
    /\ pool' = get_enter(pool, p, cpu)
    /\ UNCHANGED <<graphvars, tailq, splitcol>>

GetLock(p) ==
    /\ At(p, "g_lock")
    /\ pool.mtx[pool.th[p].i] = 0
    /\ pool' = pthread_mutex_lock(pool, p, pool.th[p].i, "g_first")
    /\ UNCHANGED <<graphvars, tailq, splitcol>>

GetFirst(p) ==
    /\ At(p, "g_first")
    /\ \E nx \in IF pool.head[pool.th[p].i] = NULL THEN {NULL}
                  ELSE ReadLink(pool, pool.head[pool.th[p].i]) :
          pool' = get_first(pool, p, nx)
    /\ UNCHANGED <<graphvars, tailq, splitcol>>

GetUnlockHit(p) ==
    /\ At(p, "g_unlock_hit")
    /\ pool' = pthread_mutex_unlock(pool, p, pool.th[p].i, "g_return")
    /\ UNCHANGED <<graphvars, tailq, splitcol>>

GetReturn(p) ==
    /\ At(p, "g_return")
    /\ pool' = get_return(pool, p)
    /\ UNCHANGED <<graphvars, tailq, splitcol>>

GetUnlockMiss(p) ==
    /\ At(p, "g_unlock_miss")
    /\ pool' = get_miss(pool, p)
    /\ UNCHANGED <<graphvars, tailq, splitcol>>

GetAlloc(p, fail) ==
    /\ At(p, "g_alloc")
    /\ pool' = tmppool_alloc(pool, p, fail)
    /\ UNCHANGED <<graphvars, tailq, splitcol>>

\* a thread passes an object it holds to tmppool_put
PutEnter(p, t) ==
    /\ At(p, "out")
    /\ t \in pool.th[p].held
    /\ \E cpu \in ReadCpu(pool, t) : pool' = put_enter(pool, p, t, cpu)
    /\ UNCHANGED <<graphvars, tailq, splitcol>>

PutLock(p) ==
    /\ At(p, "p_lock")
    /\ pool.mtx[pool.th[p].i] = 0
    /\ pool' = pthread_mutex_lock(pool, p, pool.th[p].i, "p_insert")
    /\ UNCHANGED <<graphvars, tailq, splitcol>>

PutInsert(p) ==
    /\ At(p, "p_insert")
    /\ pool' = SLIST_INSERT_HEAD(pool, p)
    /\ UNCHANGED <<graphvars, tailq, splitcol>>

PutUnlock(p) ==
    /\ At(p, "p_unlock")
    /\ pool' = put_return(pool, p)
    /\ UNCHANGED <<graphvars, tailq, splitcol>>

NextPool ==
    \E p \in Threads :
        \/ \E cpu \in Cpus : GetEnter(p, cpu)
        \/ GetLock(p)
        \/ GetFirst(p)
        \/ GetUnlockHit(p)
        \/ GetReturn(p)
        \/ GetUnlockMiss(p)
        \/ \E fail \in BOOLEAN : GetAlloc(p, fail)
        \/ \E t \in 1..MaxObjs : PutEnter(p, t)
        \/ PutLock(p)
        \/ PutInsert(p)
        \/ PutUnlock(p)

SpecPool == InitPool /\ [][NextPool]_vars

(***************************************************************************)
(* What is stored in a Graph, read off the data structure itself.          *)
(***************************************************************************)
LiveNodes(G) == 1..Len(G.node_os)

\* the Nodes chained in the buckets of the index
IndexedNodes(G) == UNION {Range(G.nodes[b]) : b \in DOMAIN G.nodes}

CompIds(G) == {G.components[i].id : i \in 1..Len(G.components)}

\* some Node of the Graph carries the identifier nstr
Known(G, nstr) == \E n \in LiveNodes(G) : G.node_os[n].ident = nstr

\* number of Edges from Node u to Node v
EdgeCount(G, u, v) ==
    Cardinality({k \in 1..Len(G.node_os[u].out_edges) :
                    G.node_os[u].out_edges[k] = v})

RECURSIVE StoredEdgesFrom(_, _)
StoredEdgesFrom(G, n) ==
    IF n > Len(G.node_os) THEN 0
    ELSE Len(G.node_os[n].out_edges) + StoredEdgesFrom(G, n + 1)

\* total number of Edges chained on the out_edges lists
TotalEdges(G) == StoredEdgesFrom(G, 1)

RECURSIVE SumOutDegree(_, _, _)
SumOutDegree(G, members, k) ==
    IF k > Len(members) THEN 0
    ELSE G.node_os[members[k]].out_degree + SumOutDegree(G, members, k + 1)

RECURSIVE SumInDegree(_, _, _)
SumInDegree(G, members, k) ==
    IF k > Len(members) THEN 0
    ELSE G.node_os[members[k]].in_degree + SumInDegree(G, members, k + 1)

\* The Graph without addresses: the component list, each Component as the
\* identifiers of its members in list order, its counters, and per member
\* the degrees and the target identifiers of its out_edges in list order.
AbstractGraph(G) ==
    [i \in 1..Len(G.components) |->
        LET c == G.components[i]
        IN  [members |-> [k \in 1..Len(c.nodes) |-> G.node_os[c.nodes[k]].ident],
             node_count |-> c.node_count,
             edge_count |-> c.edge_count,
             degrees |-> [k \in 1..Len(c.nodes) |->
                            <<G.node_os[c.nodes[k]].out_degree,
                              G.node_os[c.nodes[k]].in_degree>>],
             edges |-> [k \in 1..Len(c.nodes) |->
                          [e \in 1..Len(G.node_os[c.nodes[k]].out_edges) |->
                             G.node_os[G.node_os[c.nodes[k]].out_edges[e]].ident]]]]

(***************************************************************************)
(* The undirected graph of the calls: its vertices are the identifiers     *)
(* passed so far, its edges the pairs passed to add_edge so far.           *)
(***************************************************************************)
Neighbours(S) ==
    S \cup {a[2] : a \in {x \in seenArcs : x[1] \in S}}
      \cup {a[1] : a \in {x \in seenArcs : x[2] \in S}}

RECURSIVE Reach(_)
Reach(S) == IF Neighbours(S) = S THEN S ELSE Reach(Neighbours(S))

ConnectedComponents == {Reach({v}) : v \in seenIds}

(***************************************************************************)
(* C1.  As long as no allocation has failed, after each call the number of *)
(* Components of the Graph equals the number of connected components of    *)
(* the undirected graph of the identifiers and pairs passed so far.        *)
(***************************************************************************)
C1_ComponentCount ==
    (~allocfailed /\ ~crashed) =>
        Len(g.components) = Cardinality(ConnectedComponents)

(***************************************************************************)
(* C2.  The index never holds two distinct Nodes with equal identifiers,   *)
(* and looking up an identifier that is in the Graph finds its Node.       *)
(***************************************************************************)
C2_UniqueIdents ==
    ~crashed =>
        /\ \A m \in IndexedNodes(g), n \in IndexedNodes(g) :
              m # n => g.node_os[m].ident # g.node_os[n].ident
        /\ \A nstr \in Idents :
              Known(g, nstr) =>
                  LookupNode(g, jenkins_hash(hashsel, nstr), nstr) # NULL

(***************************************************************************)
(* C3.  After every call, failed or not, each Component's node_count is    *)
(* the length of its member list (which lists no Node twice), and its      *)
(* edge_count is the sum of the out-degrees of its members and the sum of  *)
(* their in-degrees; each out-degree is the length of the out_edges list.  *)
(***************************************************************************)
C3_Counts ==
    /\ \A i \in 1..Len(g.components) :
          LET c == g.components[i]
          IN  /\ c.node_count = Len(c.nodes)
              /\ Cardinality(Range(c.nodes)) = Len(c.nodes)
              /\ c.edge_count = SumOutDegree(g, c.nodes, 1)
              /\ c.edge_count = SumInDegree(g, c.nodes, 1)
    /\ \A n \in LiveNodes(g) :
          g.node_os[n].out_degree = Len(g.node_os[n].out_edges)

\* a call has failed on a Graph that holds a Component with an edge
C3_Witness ==
    /\ last.rv = -1
    /\ ~crashed
    /\ \E i \in 1..Len(g.components) :
          g.components[i].node_count = 2 /\ g.components[i].edge_count >= 1

(***************************************************************************)
(* C4.  After every call that returns, each Node of the index is on the    *)
(* member list of exactly one Component, once, and that Component is the   *)
(* one its comp field names; no Node is left without a Component.          *)
(***************************************************************************)
C4_OneComponent ==
    ~crashed =>
        \A n \in IndexedNodes(g) :
            LET places == UNION {{<<i, k>> :
                                     k \in {j \in 1..Len(g.components[i].nodes) :
                                               g.components[i].nodes[j] = n}} :
                                 i \in 1..Len(g.components)}
            IN  /\ n \in LiveNodes(g)
                /\ g.node_os[n].comp # NULL
                /\ Cardinality(places) = 1
                /\ \A pl \in places :
                      g.components[pl[1]].id = g.node_os[n].comp

\* an add_edge call has failed and the Graph holds Nodes
C4_Witness ==
    last.op = "add_edge" /\ last.rv = -1 /\ ~crashed /\ Len(g.node_os) >= 2

\* the composition of a Graph: its Node records, its Components, its node
\* count, the Nodes its index holds and the number of Edge records
Contents(G) ==
    [node_os |-> G.node_os, components |-> G.components,
     node_count |-> G.node_count, indexed |-> IndexedNodes(G),
     edge_os |-> G.edge_os]

ArcsBetween(G, a, b) ==
    LET from == {n \in LiveNodes(G) : G.node_os[n].ident = a}
        to == {n \in LiveNodes(G) : G.node_os[n].ident = b}
    IN  Cardinality(UNION {{<<u, k>> :
                              k \in {j \in 1..Len(G.node_os[u].out_edges) :
                                        G.node_os[u].out_edges[j] \in to}} :
                           u \in from})

C6_Idempotent ==
    (/\ last.op = "add_edge"
     /\ ~crashed
     /\ ~last.failed
     /\ HasFlag(g.flags, GRAPH_NOPARALLEL)
     /\ last.again) =>
        /\ last.rv = 0
        /\ g = pre
        /\ ~(HasFlag(g.flags, GRAPH_NOLOOP) /\ last.s1 = last.s2) =>
              IF HasFlag(g.flags, GRAPH_UNDIRECTED) /\ last.s1 # last.s2
              THEN ArcsBetween(g, last.s1, last.s2)
                     + ArcsBetween(g, last.s2, last.s1) = 1
              ELSE ArcsBetween(g, last.s1, last.s2) = 1

(***************************************************************************)
(* C7.  With no-loop, add_edge(x, x) returns 0 and increases no degree and *)
(* no Component's edge count; if x was unknown it is afterwards the only   *)
(* member of a new Component at the end of the list, and if x was known    *)
(* the Graph is as it was, x staying in its Component.                     *)
(***************************************************************************)
C7_NoLoop ==
    (/\ last.op = "add_edge"
     /\ last.s1 = last.s2
     /\ HasFlag(g.flags, GRAPH_NOLOOP)
     /\ ~crashed
     /\ ~last.failed) =>
        /\ last.rv = 0
        /\ \A n \in LiveNodes(pre) :
              /\ g.node_os[n].out_degree = pre.node_os[n].out_degree
              /\ g.node_os[n].in_degree = pre.node_os[n].in_degree
        /\ \A i \in 1..Len(pre.components) :
              g.components[i] = pre.components[i]
        /\ IF Known(pre, last.s1)
           THEN g = pre
           ELSE /\ Len(g.node_os) = Len(pre.node_os) + 1
                /\ Len(g.components) = Len(pre.components) + 1
                /\ LET c == g.components[Len(g.components)]
                       n == Len(g.node_os)
                   IN  /\ c.nodes = <<n>>
                       /\ c.node_count = 1
                       /\ c.edge_count = 0
                       /\ g.node_os[n].ident = last.s1
                       /\ g.node_os[n].comp = c.id
                       /\ g.node_os[n].out_degree = 0
                       /\ g.node_os[n].in_degree = 0

(***************************************************************************)
(* C8.  With undirected, add_edge(a, b) and add_edge(b, a) made on the     *)
(* same Graph give the same result and the same Graph up to addresses;     *)
(* with no-parallel as well, an add_edge call for a pair that an earlier   *)
(* call was made for, in either order, returns 0 and leaves the Graph as   *)
(* it was.                                                                 *)
(***************************************************************************)
C8_Undirected ==
    (HasFlag(g.flags, GRAPH_UNDIRECTED) /\ ~crashed) =>
        /\ \A a \in Idents, b \in Idents :
              LET ab == graph_add_edge(g, hashsel, a, b, {})
                  ba == graph_add_edge(g, hashsel, b, a, {})
              IN  /\ ab.rv = ba.rv
                  /\ AbstractGraph(ab.g) = AbstractGraph(ba.g)
        /\ (/\ last.op = "add_edge"
            /\ ~last.failed
            /\ HasFlag(g.flags, GRAPH_NOPARALLEL)
            /\ (last.again \/ last.reverse)) =>
               /\ last.rv = 0
               /\ g = pre

(***************************************************************************)
(* C9.  In a Graph with no-loop, no-parallel and dual, as long as no       *)
(* allocation has failed: a Node u has an Edge to v iff v has one to u, no *)
(* Node has an Edge to itself, and no Node has two Edges to the same Node. *)
(***************************************************************************)
C9_DualSymmetricSimple ==
    (/\ HasFlag(g.flags, GRAPH_NOLOOP)
     /\ HasFlag(g.flags, GRAPH_NOPARALLEL)
     /\ HasFlag(g.flags, GRAPH_DUAL)
     /\ ~allocfailed
     /\ ~crashed) =>
        \A u \in LiveNodes(g), v \in LiveNodes(g) :
            /\ graph_edge_exists(g, u, v) <=> graph_edge_exists(g, v, u)
            /\ EdgeCount(g, u, u) = 0
            /\ EdgeCount(g, u, v) <= 1

\* such a Graph holds a Node with Edges to two other Nodes
C9_Witness ==
    /\ HasFlag(g.flags, GRAPH_NOLOOP)
    /\ HasFlag(g.flags, GRAPH_NOPARALLEL)
    /\ HasFlag(g.flags, GRAPH_DUAL)
    /\ ~allocfailed
    /\ \E u \in LiveNodes(g) : g.node_os[u].out_degree = 2
    /\ TotalEdges(g) = 4

(***************************************************************************)
(* C10.  When an add_edge call links endpoints that were in two different  *)
(* Components, where c1 is the Component of the source endpoint and c2     *)
(* that of the target: c2 survives if it had more Nodes than c1, otherwise *)
(* c1 survives.  Afterwards the other one is gone from the component list, *)
(* the survivor's member list is its old list followed by the absorbed     *)
(* one's, every former member of either names the survivor, and the        *)
(* survivor's node count is the sum of both and its edge count the sum of  *)
(* both plus the edges the call linked.                                    *)
(***************************************************************************)
\* the Nodes the last call resolved its arguments to, in the Graph before
PreNode1 == LookupNode(pre, jenkins_hash(hashsel, last.s1), last.s1)

PreNode2 == LookupNode(pre, jenkins_hash(hashsel, last.s2), last.s2)

\* the last call joined two Components
Joined ==
    /\ last.op = "add_edge"
    /\ ~crashed
    /\ last.rv >= 1
    /\ PreNode1 # NULL
    /\ PreNode2 # NULL
    /\ pre.node_os[PreNode1].comp # pre.node_os[PreNode2].comp

\* the source endpoint of the last call is the Node of its second argument
Reoriented ==
    /\ HasFlag(pre.flags, GRAPH_UNDIRECTED)
    /\ \/ pre.node_os[PreNode1].hv > pre.node_os[PreNode2].hv
       \/ /\ pre.node_os[PreNode1].hv = pre.node_os[PreNode2].hv
          /\ pre.node_os[PreNode1].ident > pre.node_os[PreNode2].ident

SrcComp ==
    CompAt(pre, pre.node_os[IF Reoriented THEN PreNode2 ELSE PreNode1].comp)

TgtComp ==
    CompAt(pre, pre.node_os[IF Reoriented THEN PreNode1 ELSE PreNode2].comp)

C10_Merge ==
    Joined =>
        LET c1 == SrcComp
            c2 == TgtComp
            big == IF Len(c2.nodes) > Len(c1.nodes) THEN c2 ELSE c1
            small == IF Len(c2.nodes) > Len(c1.nodes) THEN c1 ELSE c2
        IN  /\ small.id \notin CompIds(g)
            /\ big.id \in CompIds(g)
            /\ Len(g.components) = Len(pre.components) - 1
            /\ CompAt(g, big.id).nodes = big.nodes \o small.nodes
            /\ \A n \in Range(big.nodes) \cup Range(small.nodes) :
                  g.node_os[n].comp = big.id
            /\ CompAt(g, big.id).node_count = big.node_count + small.node_count
            /\ CompAt(g, big.id).edge_count =
                  big.edge_count + small.edge_count + last.rv

\* the Component of the source endpoint, the smaller one, was absorbed
C10_Witness ==
    /\ Joined
    /\ Len(SrcComp.nodes) < Len(TgtComp.nodes)
    /\ SrcComp.id \notin CompIds(g)

\* Components of equal size were joined and the source's survived
C10_WitnessEqual ==
    /\ Joined
    /\ Len(SrcComp.nodes) = Len(TgtComp.nodes)
    /\ SrcComp.id \in CompIds(g)

(***************************************************************************)
(* C11.  A graph_add_node call that returns a value other than -1 returns  *)
(* 1 if no Node carried the identifier before and 0 if one did.  With 1,   *)
(* the Graph has one more Node, carrying the identifier and no edges, as   *)
(* the only member of a new Component with no edges at the end of the      *)
(* component list, and the older Components are as they were.  With 0, the *)
(* Graph is as it was.                                                     *)
(***************************************************************************)
C11_AddNode ==
    (last.op = "add_node" /\ ~crashed /\ last.rv # -1) =>
        /\ last.rv \in {0, 1}
        /\ last.rv = 1 <=> ~Known(pre, last.s1)
        /\ last.rv = 0 => g = pre
        /\ last.rv = 1 =>
              /\ Len(g.node_os) = Len(pre.node_os) + 1
              /\ g.node_count = pre.node_count + 1
              /\ Len(g.components) = Len(pre.components) + 1
              /\ \A i \in 1..Len(pre.components) :
                    g.components[i] = pre.components[i]
              /\ \A n \in LiveNodes(pre) : g.node_os[n] = pre.node_os[n]
              /\ LET c == g.components[Len(g.components)]
                     n == Len(g.node_os)
                 IN  /\ c.nodes = <<n>>
                     /\ c.node_count = 1
                     /\ c.edge_count = 0
                     /\ n \in IndexedNodes(g)
                     /\ g.node_os[n] =
                           [ident |-> last.s1,
                            hv |-> jenkins_hash(hashsel, last.s1),
                            comp |-> c.id, out_edges |-> <<>>,
                            out_degree |-> 0, in_degree |-> 0]

(***************************************************************************)
(* C12.  When an allocation other than a chunk of an obstack fails in a    *)
(* graph_add_edge call before an edge was linked, the call returns -1 and  *)
(* the Graph is composed as before the call: the same Node records         *)
(* (none of those the call created is left in the node obstack or in the   *)
(* index), the same Components with the same counts, the same degrees.     *)
(* A call that was on its way to return -1 when the process died has       *)
(* last.rv = -1 and crashed set.                                           *)
(***************************************************************************)
C12_Rollback ==
    (/\ last.op = "add_edge"
     /\ last.rv = -1
     /\ ~last.exited
     /\ TotalEdges(g) = TotalEdges(pre)) =>
        /\ ~crashed
        /\ Contents(g) = Contents(pre)

(***************************************************************************)
(* C13.  With dual, when an allocation fails in an add_edge call for two   *)
(* different identifiers after the forward edge was linked and before the  *)
(* reverse edge is, the call returns -1 and the forward edge stays: the    *)
(* Graph holds one more edge than before, and the counts of C3 and the     *)
(* membership of C4 hold.                                                  *)
(***************************************************************************)
C13_ReverseFails ==
    (/\ last.op = "add_edge"
     /\ HasFlag(pre.flags, GRAPH_DUAL)
     /\ last.s1 # last.s2
     /\ last.failed
     /\ TotalEdges(g) = TotalEdges(pre) + 1) =>
        /\ ~crashed
        /\ last.rv = -1
        /\ C3_Counts
        /\ C4_OneComponent

(***************************************************************************)
(* C14.  graph_init returns -1 for every flag word that sets both          *)
(* undirected and dual or a bit outside the four flags; for any other flag *)
(* word it returns 0 and leaves an empty Graph with these flags, unless    *)
(* the allocation of the bucket array fails, in which case it returns -1   *)
(* as well.  No add_node or add_edge call changes the flags.               *)
(***************************************************************************)
BadFlagWord(flags) ==
    \/ flags >= 2 * GRAPH_DUAL
    \/ HasFlag(flags, GRAPH_UNDIRECTED) /\ HasFlag(flags, GRAPH_DUAL)

C15_ShortCircuit ==
    last.op \in IterOps =>
        LET n == Len(last.calls)
            ret(i) == callback(i, last.stop, last.value)
        IN  /\ \A i \in 1..(n - 1) : ret(i) = 0
            /\ (n >= 1 /\ ret(n) # 0) => last.rv = ret(n)
            /\ (\A i \in 1..n : ret(i) = 0) => last.rv = 0

\* graph_iterate_edges was stopped by the callback in the second Component
C15_Witness ==
    /\ last.op = "graph_iterate_edges"
    /\ last.rv = 3
    /\ Len(last.calls) >= 2
    /\ Len(g.components) >= 2
    /\ g.node_os[last.calls[Len(last.calls)][1]].comp = g.components[2].id

(***************************************************************************)
(* C16.  With a callback that always returns 0, graph_iterate_nodes makes  *)
(* one invocation per Node, in the order of the component list and, within *)
(* a Component, of its member list; graph_iterate_edges makes one          *)
(* invocation per Edge, with the Node the Edge is chained on and the       *)
(* Edge's target, Component by Component in the order of the component     *)
(* list; and the Graph is as it was.                                       *)
(***************************************************************************)
\* position in the component list of the Component of Node n
PosOfNode(G, n) == CompPos(G, G.node_os[n].comp)

\* number of times x occurs in the sequence s
Occurrences(s, x) == Cardinality({i \in 1..Len(s) : s[i] = x})

C16_IterateAll ==
    (last.op \in {"graph_iterate_nodes", "graph_iterate_edges"}
       /\ last.stop = 0) =>
        /\ g = pre
        /\ last.rv = 0
        /\ last.op = "graph_iterate_nodes" =>
              /\ \A n \in LiveNodes(g) : Occurrences(last.calls, n) = 1
              /\ \A i \in 1..Len(last.calls) : last.calls[i] \in LiveNodes(g)
              /\ \A i \in 1..Len(last.calls), j \in 1..Len(last.calls) :
                    i < j => PosOfNode(g, last.calls[i])
                               <= PosOfNode(g, last.calls[j])
        /\ last.op = "graph_iterate_edges" =>
              /\ \A u \in LiveNodes(g), v \in LiveNodes(g) :
                    Occurrences(last.calls, <<u, v>>) = EdgeCount(g, u, v)
              /\ Len(last.calls) = TotalEdges(g)
              /\ \A i \in 1..Len(last.calls), j \in 1..Len(last.calls) :
                    i < j => PosOfNode(g, last.calls[i][1])
                               <= PosOfNode(g, last.calls[j][1])

\* graph_iterate_edges has run over two Components that both hold Edges,
\* one of them an Edge between different Nodes
C16_Witness ==
    /\ last.op = "graph_iterate_edges"
    /\ last.stop = 0
    /\ Len(g.components) = 2
    /\ g.components[1].edge_count >= 1
    /\ g.components[2].edge_count >= 1
    /\ \E i \in 1..Len(last.calls) : last.calls[i][1] # last.calls[i][2]

(***************************************************************************)
(* Adjacency of Nodes, read off the out_edges lists, and the maximal       *)
(* cliques of a set of Nodes.                                              *)
(***************************************************************************)
Linked(G, u, v) == graph_edge_exists(G, u, v) \/ graph_edge_exists(G, v, u)

MutuallyAdjacent(G, u, v) ==
    graph_edge_exists(G, u, v) /\ graph_edge_exists(G, v, u)

IsClique(G, S) == \A u \in S, v \in S : u # v => MutuallyAdjacent(G, u, v)

IsMaximal(G, S) ==
    \A n \in LiveNodes(G) \ S : \E m \in S : ~Linked(G, n, m)

MaximalCliques(G, M) ==
    {S \in SUBSET M : S # {} /\ IsClique(G, S) /\ IsMaximal(G, S)}

Isolated(G, n) ==
    /\ G.node_os[n].out_edges = <<>>
    /\ \A m \in LiveNodes(G) : ~graph_edge_exists(G, m, n)

\* the callback returned a non-zero value during the latest call
CallbackStopped == last.stop \in 1..Len(last.calls)

(***************************************************************************)
(* C17.  Every node array passed to the clique callback, by either clique  *)
(* iterator, holds distinct Nodes that are pairwise mutually adjacent, and *)
(* no Node outside the array is adjacent to all of its members.            *)
(***************************************************************************)
C17_MaximalClique ==
    last.op \in CliqueOps =>
        \A k \in 1..Len(last.calls) :
            /\ Len(last.calls[k]) >= 1
            /\ Cardinality(Range(last.calls[k])) = Len(last.calls[k])
            /\ IsClique(g, Range(last.calls[k]))
            /\ IsMaximal(g, Range(last.calls[k]))

\* a clique of three Nodes is reported in a Component that has a Node
\* outside it, linked to a member
C17_Witness ==
    /\ last.op = "component_iterate_maximal_cliques"
    /\ \E k \in 1..Len(last.calls) :
          /\ Len(last.calls[k]) >= 3
          /\ \E n \in LiveNodes(g) \ Range(last.calls[k]) :
                \E m \in Range(last.calls[k]) : Linked(g, n, m)

(***************************************************************************)
(* C18.  With a callback that always returns 0,                            *)
(* component_iterate_maximal_cliques returns 0 and the arrays it passed    *)
(* are the maximal cliques of the Component, each passed once.             *)
(***************************************************************************)
C18_AllOnce ==
    (last.op = "component_iterate_maximal_cliques" /\ ~CallbackStopped) =>
        /\ ~last.abort
        /\ last.rv = 0
        /\ {Range(last.calls[k]) : k \in 1..Len(last.calls)}
              = MaximalCliques(g, Range(g.components[last.pos].nodes))
        /\ \A k \in 1..Len(last.calls), l \in 1..Len(last.calls) :
              k # l => Range(last.calls[k]) # Range(last.calls[l])

\* a Component with at least three maximal cliques that overlap
C18_Witness ==
    /\ last.op = "component_iterate_maximal_cliques"
    /\ ~CallbackStopped
    /\ Len(last.calls) >= 3
    /\ \E k \in 1..Len(last.calls), l \in 1..Len(last.calls) :
          /\ k # l
          /\ Range(last.calls[k]) \cap Range(last.calls[l]) # {}
          /\ Len(last.calls[k]) >= 3

(***************************************************************************)
(* C19.  With a callback that always returns 0, the arrays of length one   *)
(* that graph_iterate_maximal_cliques passes are those of the Nodes with   *)
(* no incident edge, each passed once.                                     *)
(***************************************************************************)
C19_Singletons ==
    (last.op = "graph_iterate_maximal_cliques" /\ ~CallbackStopped) =>
        \A n \in LiveNodes(g) :
            Occurrences(last.calls, <<n>>) = IF Isolated(g, n) THEN 1 ELSE 0

\* a Graph with two isolated Nodes and a Component of three
C19_Witness ==
    /\ last.op = "graph_iterate_maximal_cliques"
    /\ ~CallbackStopped
    /\ Cardinality({n \in LiveNodes(g) : Isolated(g, n)}) = 2
    /\ \E i \in 1..Len(g.components) : Len(g.components[i].nodes) = 3

(***************************************************************************)
(* C20.  Once the callback has returned a non-zero value it is not invoked *)
(* again and the clique iterator returns that value.  If the callback      *)
(* returns 0 at every invocation the iterator returns 0, and               *)
(* graph_iterate_maximal_cliques has then gone through the Components in   *)
(* the order of the component list, each of them reported in.              *)
(***************************************************************************)
C20_ShortCircuit ==
    last.op \in CliqueOps =>
        /\ ~last.abort
        /\ CallbackStopped =>
              /\ Len(last.calls) = last.stop
              /\ last.rv = last.value
        /\ ~CallbackStopped => last.rv = 0
        /\ (~CallbackStopped /\ last.op = "graph_iterate_maximal_cliques") =>
              /\ \A k \in 1..(Len(last.calls) - 1) :
                    PosOfNode(g, last.calls[k][1])
                        <= PosOfNode(g, last.calls[k + 1][1])
              /\ \A i \in 1..Len(g.components) :
                    \E k \in 1..Len(last.calls) :
                        PosOfNode(g, last.calls[k][1]) = i

\* the callback stops the search of the whole Graph at its second
\* invocation, in a Component that is not the last and has more cliques
C20_Witness ==
    /\ last.op = "graph_iterate_maximal_cliques"
    /\ last.stop = 2
    /\ Len(last.calls) = 2
    /\ last.rv = 3
    /\ PosOfNode(g, last.calls[2][1]) < Len(g.components)
    /\ Cardinality(MaximalCliques(g,
           Range(g.components[PosOfNode(g, last.calls[2][1])].nodes))) >= 3

(***************************************************************************)
(* C21.  graph_iterate_maximal_cliques on a Graph whose flags lack         *)
(* no-parallel, no-loop or dual returns -1, invokes the callback not once  *)
(* and leaves the Graph as it was.  On a Graph with the three flags it     *)
(* runs the search: with a callback that always returns 0 it returns 0     *)
(* and has passed the maximal cliques of the Graph.                        *)
(***************************************************************************)
HasRequiredFlags(G) ==
    /\ HasFlag(G.flags, GRAPH_NOPARALLEL)
    /\ HasFlag(G.flags, GRAPH_NOLOOP)
    /\ HasFlag(G.flags, GRAPH_DUAL)

C21_RequiredFlags ==
    last.op = "graph_iterate_maximal_cliques" =>
        /\ g = pre
        /\ ~HasRequiredFlags(g) => (last.rv = -1 /\ last.calls = <<>>)
        /\ (HasRequiredFlags(g) /\ ~CallbackStopped) =>
              /\ last.rv = 0
              /\ {Range(last.calls[k]) : k \in 1..Len(last.calls)}
                    = MaximalCliques(g, LiveNodes(g))

\* the search is refused on a Graph that holds Nodes and an Edge
C21_Witness ==
    /\ last.op = "graph_iterate_maximal_cliques"
    /\ ~HasRequiredFlags(g)
    /\ HasFlag(g.flags, GRAPH_DUAL)
    /\ TotalEdges(g) >= 2
    /\ last.rv = -1

(***************************************************************************)
(* The words of a line, read off its characters: the maximal runs of       *)
(* characters other than SP, from left to right.                           *)
(***************************************************************************)
WordStarts(line) ==
    {i \in 1..Len(line) : line[i] # SP /\ (i = 1 \/ line[i - 1] = SP)}

WordFrom(line, b) ==
    StrId(SubSeq(line, b,
                 CHOOSE e \in b..Len(line) :
                     /\ \A j \in b..e : line[j] # SP
                     /\ e = Len(line) \/ line[e + 1] = SP))

\* the n-th word of line, NULL if it has fewer words
Word(line, n) ==
    IF Cardinality(WordStarts(line)) < n THEN NULL
    ELSE WordFrom(line, CHOOSE b \in WordStarts(line) :
                            Cardinality({c \in WordStarts(line) : c < b}) = n - 1)

\* the loop body of graph_add_file ran for the last line of last.lines
AfterLine ==
    /\ last.op \in {"getline", "graph_add_file"}
    /\ "ferror" \notin DOMAIN last

LastLine == last.lines[Len(last.lines)]

(***************************************************************************)
(* C25.  graph_add_file takes the lines in order.  A line without a word   *)
(* changes nothing; a line with one word is passed to add_node, a line     *)
(* with more words to add_edge with its first two words.  A call that      *)
(* fails ends the reading with the result -1, no later line is taken and   *)
(* what the Graph held before is still in it; when the stream ends and no  *)
(* call has failed the result is 0, and it is -1 on a read error.          *)
(***************************************************************************)
C25_AddFile ==
    /\ (AfterLine /\ ~last.exited) =>
          /\ ~crashed
          /\ last.s1 = Word(LastLine, 1)
          /\ last.s2 = Word(LastLine, 2)
          /\ Word(LastLine, 1) = NULL =>
                (last.op = "getline" /\ Contents(g) = Contents(pre))
          /\ Word(LastLine, 2) = NULL => TotalEdges(g) = TotalEdges(pre)
          /\ last.op = "getline" =>
                /\ last.rv = 0
                /\ \A i \in 1..Len(last.lines), n \in {1, 2} :
                      Word(last.lines[i], n) # NULL =>
                          Known(g, Word(last.lines[i], n))
          /\ last.op = "graph_add_file" =>
                /\ last.rv = -1
                /\ last.failed
                /\ TotalEdges(g) >= TotalEdges(pre)
                /\ \A x \in seenIds : Known(pre, x) => Known(g, x)
    /\ (last.op = "graph_add_file" /\ "ferror" \in DOMAIN last) =>
          /\ last.rv = (IF last.ferror THEN -1 ELSE 0)
          /\ \A i \in 1..Len(last.lines), n \in {1, 2} :
                Word(last.lines[i], n) # NULL =>
                    Known(g, Word(last.lines[i], n))

(***************************************************************************)
(* The Graph and the reported cliques in terms of identifiers.             *)
(***************************************************************************)
IdentsOf(G, S) == {G.node_os[n].ident : n \in S}

\* the identifier sets of the Components
ComponentIdents(G) ==
    {IdentsOf(G, Range(G.components[i].nodes)) : i \in 1..Len(G.components)}

\* the pairs (source, target) of the stored Edges
StoredPairs(G) ==
    UNION {{<<G.node_os[u].ident, G.node_os[G.node_os[u].out_edges[k]].ident>> :
               k \in 1..Len(G.node_os[u].out_edges)} : u \in LiveNodes(G)}

ReportedIdents == {IdentsOf(g, Range(last.calls[k])) : k \in 1..Len(last.calls)}

\* main of maximal_cliques has read a file of three lines whose first two
\* words are those of w and has run the search
FileWas(w) ==
    /\ last.op = "maximal_cliques"
    /\ g.flags = required_flags
    /\ Len(last.lines) = 3
    /\ \A i \in 1..3, n \in {1, 2} : Word(last.lines[i], n) = w[i][n]

(***************************************************************************)
(* C22.  After the lines `a b', `b c', `d' the Graph has the two           *)
(* Components {a, b, c} and {d}; the adjacent pairs are a-b and b-c, each  *)
(* stored in both directions, and d has no edge; the search reports the    *)
(* three cliques {a, b}, {b, c} and {d}.                                   *)
(***************************************************************************)
C22_PathAndPoint ==
    FileWas(<<<<1, 2>>, <<2, 3>>, <<4, NULL>>>>) =>
        /\ Len(g.components) = 2
        /\ ComponentIdents(g) = {{1, 2, 3}, {4}}
        /\ Len(g.node_os) = 4
        /\ StoredPairs(g) = {<<1, 2>>, <<2, 1>>, <<2, 3>>, <<3, 2>>}
        /\ TotalEdges(g) = 4
        /\ last.rv = 0
        /\ Len(last.calls) = 3
        /\ ReportedIdents = {{1, 2}, {2, 3}, {4}}

C22_Witness ==
    /\ FileWas(<<<<1, 2>>, <<2, 3>>, <<4, NULL>>>>)
    /\ Len(last.calls) = 3

(***************************************************************************)
(* C23.  After the lines `x y', `y z', `z x' the Graph has one Component   *)
(* of three Nodes; the three adjacent pairs are each stored as two Edges,  *)
(* six in all; the search reports the one clique {x, y, z}.                *)
(***************************************************************************)
C23_Triangle ==
    FileWas(<<<<1, 2>>, <<2, 3>>, <<3, 1>>>>) =>
        /\ Len(g.components) = 1
        /\ ComponentIdents(g) = {{1, 2, 3}}
        /\ g.components[1].node_count = 3
        /\ Len(g.node_os) = 3
        /\ StoredPairs(g) = {<<1, 2>>, <<2, 1>>, <<2, 3>>, <<3, 2>>,
                              <<3, 1>>, <<1, 3>>}
        /\ TotalEdges(g) = 6
        /\ g.components[1].edge_count = 6
        /\ last.rv = 0
        /\ Len(last.calls) = 1
        /\ ReportedIdents = {{1, 2, 3}}

C23_Witness ==
    /\ FileWas(<<<<1, 2>>, <<2, 3>>, <<3, 1>>>>)
    /\ Len(last.calls) = 1
    /\ Len(last.calls[1]) = 3

(***************************************************************************)
(* C24.  The round trip of a Component that has Edges, in a Graph whose    *)
(* flags do not combine dual with parallel edges, gives a Graph with one   *)
(* Component that has the same number of Nodes, the same number of Edges   *)
(* and, as sets of identifiers, the same maximal cliques.  (A Component    *)
(* without an Edge delivers no pair, and under dual without no-parallel    *)
(* every pair is delivered in both directions and stored twice over:       *)
(* C24_RoundTripAny, the statement for every Component of every Graph,     *)
(* fails there.)                                                           *)
(***************************************************************************)
CliqueIdents_Of(G, M) == {IdentsOf(G, S) : S \in MaximalCliques(G, M)}

SameComponent(G, c, H) ==
    /\ Len(H.components) = 1
    /\ H.components[1].node_count = c.node_count
    /\ Len(H.components[1].nodes) = Len(c.nodes)
    /\ H.components[1].edge_count = c.edge_count
    /\ TotalEdges(H) = SumOutDegree(G, c.nodes, 1)
    /\ CliqueIdents_Of(H, Range(H.components[1].nodes))
          = CliqueIdents_Of(G, Range(c.nodes))

C24_RoundTripAny ==
    last.op = "round_trip" =>
        SameComponent(g, g.components[last.pos], last.fresh)

C24_RoundTrip ==
    (/\ last.op = "round_trip"
     /\ Len(last.calls) >= 1
     /\ HasFlag(g.flags, GRAPH_DUAL) => HasFlag(g.flags, GRAPH_NOPARALLEL)) =>
        SameComponent(g, g.components[last.pos], last.fresh)

(***************************************************************************)
(* C26.  A failed attempt to grow the index is not fatal and is not        *)
(* repeated.  The call whose Node allocation triggered it succeeds, the    *)
(* bucket array stays as it was, every identifier that a lookup found      *)
(* before the call is still found after it, and so are the identifiers of  *)
(* the call.  From then on no call that allocates Nodes attempts the       *)
(* resize: no allocation fails and the bucket array keeps its size,        *)
(* although node_count is above the growth threshold of that size.         *)
(* (C26_Retry is the statement that such a later call does attempt it.)    *)
(***************************************************************************)
\* the threshold graph_init and a resize set for a bucket array of G's size
GrowthThreshold(G) == (G.hashmask + 1) * ctz(G.hashmask + 1)

Found(G, nstr) == LookupNode(G, jenkins_hash(hashsel, nstr), nstr) # NULL

\* the step is a call during which the malloc of the bucket array failed
FailedResizeStep ==
    /\ last'.failed
    /\ ~crashed'
    /\ last'.rv >= 0
    /\ g'.hashmask = g.hashmask
    /\ \A nstr \in IdentsOf(g, LiveNodes(g)) : Found(g, nstr) => Found(g', nstr)
    /\ Found(g', last'.s1) /\ Found(g', last'.s2)

\* the step is a call that allocates Nodes after an earlier failed resize
LaterInsertion ==
    /\ allocfailed
    /\ g'.node_count > g.node_count
    /\ g'.node_count > GrowthThreshold(g)

C26_NoRetry ==
    [][/\ last'.failed => FailedResizeStep
       /\ LaterInsertion => (~last'.failed /\ g'.hashmask = g.hashmask)]_vars

C26_Retry ==
    [][/\ last'.failed => FailedResizeStep
       /\ LaterInsertion => (last'.failed \/ g'.hashmask > g.hashmask)]_vars

C26_Witness ==
    /\ allocfailed /\ ~last.failed /\ ~crashed
    /\ pre.resize_threshold = UINT32_MAX
    /\ g.node_count > pre.node_count
    /\ g.node_count > GrowthThreshold(g)
    /\ g.hashmask = pre.hashmask

(***************************************************************************)
(* The TAILQ read off its links.                                           *)
(***************************************************************************)
\* the elements met by TAILQ_FOREACH, at most k of them
RECURSIVE Forward(_, _, _)
Forward(Q, e, k) ==
    IF e = NULL \/ k = 0 THEN <<>>
    ELSE <<e>> \o Forward(Q, Q.tqe_next[e], k - 1)

\* one more than the number of elements, so that a cycle shows as a list
\* that is too long
Listed(Q) == Forward(Q, Q.tqh_first, Len(Q.value) + 1)

SortReturned == tailq.pc = "done"

\* the elements of the list are the elements 1..n, each once
SameElements(Q) ==
    /\ Len(Listed(Q)) = Len(Q.value)
    /\ Range(Listed(Q)) = 1..Len(Q.value)

\* tqe_prev of each element points to the tqe_next (tqh_first) that points
\* to it, and tqh_last to the NULL that ends the list
LinksConsistent(Q) ==
    LET L == Listed(Q)
    IN  /\ \A i \in 1..Len(L) :
              Q.tqe_prev[L[i]] = IF i = 1 THEN HEAD ELSE L[i - 1]
        /\ Q.tqh_last = IF L = <<>> THEN HEAD ELSE L[Len(L)]
        /\ L # <<>> => Q.tqe_next[L[Len(L)]] = NULL

(***************************************************************************)
(* C27.  When tailq_sort has returned, each element of the list compares   *)
(* less than or equal to its successor, and of two elements that compare   *)
(* equal the one that was first before the call is first after it.         *)
(***************************************************************************)
C27_StableSort ==
    SortReturned =>
        LET L == Listed(tailq)
        IN  /\ \A i \in 1..(Len(L) - 1) :
                  cmp_test(tailq, L[i], L[i + 1]) <= 0
            /\ \A i \in 1..Len(L), j \in 1..Len(L) :
                  (i < j /\ cmp_test(tailq, L[i], L[j]) = 0) => L[i] < L[j]

\* a sorted list of several elements with equal ones among them, which the
\* call had to reorder
C27_Witness ==
    /\ SortReturned
    /\ Len(tailq.value) >= 4
    /\ Listed(tailq) # [i \in 1..Len(tailq.value) |-> i]
    /\ \E i \in 1..Len(tailq.value), j \in 1..Len(tailq.value) :
          i # j /\ tailq.value[i] = tailq.value[j]

(***************************************************************************)
(* C28.  Every call of tailq_sort returns, and when it has returned the    *)
(* list holds exactly the elements it held before the call, each once,     *)
(* with tqe_prev, tqe_next, tqh_first and tqh_last consistent.             *)
(***************************************************************************)
C28_Relinks ==
    /\ <>SortReturned
    /\ [](SortReturned => (SameElements(tailq) /\ LinksConsistent(tailq)))

\* a list of 2^k + 1 elements whose last element went to the front
C28_Witness ==
    /\ SortReturned
    /\ Len(tailq.value) \in {3, 5, 9}
    /\ tailq.tqh_first = Len(tailq.value)

(***************************************************************************)
(* split_col: the input and the output files of a run.                     *)
(***************************************************************************)
\* the lines of input file f that the loop of do_input_file reads, in order
RECURSIVE DataLinesOf(_, _, _)
DataLinesOf(S, f, i) ==
    IF i > Len(S.argv[f]) THEN <<>>
    ELSE <<<<f, i>>>> \o DataLinesOf(S, f, i + 1)

\* those of all input files, in the order of the command line
RECURSIVE DataLinesFrom(_, _)
DataLinesFrom(S, f) ==
    IF f > Len(S.argv) THEN <<>>
    ELSE DataLinesOf(S, f, IF S.header THEN 2 ELSE 1) \o DataLinesFrom(S, f + 1)

DataLines(S) == DataLinesFrom(S, 1)

ColumnOf(S, l) == S.argv[l[1]][l[2]]

\* the name of the output file the line l is printed to
OutFnOf(S, l) == <<IF S.template THEN FromTemplate ELSE l[1], ColumnOf(S, l)>>

\* the input lines whose column is v, in input order
LinesWith(S, v) == SelectSeq(DataLines(S), LAMBDA l : ColumnOf(S, l) = v)

\* the input lines that go to the output file fn, in input order
LinesFor(S, fn) == SelectSeq(DataLines(S), LAMBDA l : OutFnOf(S, l) = fn)

SplitDone == splitcol.pc = "done"

(***************************************************************************)
(* C29.  When split_col, run without --header, has finished, every output  *)
(* file that a value of the selected column names holds exactly the input  *)
(* lines that have this value, in input order: the lines of all input      *)
(* files under --template, and the lines of the one input file whose name  *)
(* gave the output file name otherwise.  This is so also for the files     *)
(* that were closed and opened again during the run.                       *)
(* (C29_AnyRun is the statement for every run and with the lines of all    *)
(* input files in every output file of the value.)                         *)
(***************************************************************************)
C29_Split ==
    (SplitDone /\ ~splitcol.header) =>
        \A l \in Range(DataLines(splitcol)) :
            splitcol.disk[OutFnOf(splitcol, l)] =
                LinesFor(splitcol, OutFnOf(splitcol, l))

C29_AnyRun ==
    SplitDone =>
        \A l \in Range(DataLines(splitcol)) :
            splitcol.disk[OutFnOf(splitcol, l)] =
                LinesWith(splitcol, ColumnOf(splitcol, l))

\* a finished run under --template in which a file that was closed and
\* opened again holds lines of two input files
C29_Witness ==
    /\ SplitDone /\ ~splitcol.header /\ splitcol.template
    /\ \E fn \in splitcol.reopened :
          /\ Len(splitcol.disk[fn]) >= 2
          /\ \E a \in Range(splitcol.disk[fn]), b \in Range(splitcol.disk[fn]) :
                a[1] # b[1]

(***************************************************************************)
(* tmppool: the free lists read off the links, and the objects in use.     *)
(***************************************************************************)
\* the objects met by a walk along list i, at most k of them; the walk
\* ends at an object whose union does not hold a link
RECURSIVE FreeFrom(_, _, _)
FreeFrom(P, t, k) ==
    IF t = NULL \/ k = 0 THEN <<>>
    ELSE <<t>> \o (IF P.u[t].tag = "list"
                   THEN FreeFrom(P, P.u[t].v, k - 1) ELSE <<>>)

FreeList(P, i) == FreeFrom(P, P.head[i], Len(P.u) + 1)

HeldBy(P, p) == P.th[p].held

Held(P) == UNION {HeldBy(P, p) : p \in Threads}

(***************************************************************************)
(* C30.  In every state of every interleaving of tmppool_get and           *)
(* tmppool_put calls of the threads, in which a thread passes to           *)
(* tmppool_put only objects it holds: no object is held by two threads,    *)
(* no held object is on a free list, every object on a free list holds a   *)
(* link, no object is twice on a list and no object is on two lists.       *)
(***************************************************************************)
C30_Exclusive ==
    /\ \A p \in Threads, q \in Threads :
          p # q => HeldBy(pool, p) \cap HeldBy(pool, q) = {}
    /\ \A i \in Lists :
          LET L == FreeList(pool, i)
          IN  /\ Range(L) \cap Held(pool) = {}
              /\ \A k \in 1..Len(L) : pool.u[L[k]].tag = "list"
              /\ Cardinality(Range(L)) = Len(L)
              /\ \A j \in Lists :
                    i # j => Range(L) \cap Range(FreeList(pool, j)) = {}

\* two threads hold objects, one of them an object that it took from a
\* list other than the one of its cpu (the first object allocated carries
\* the cpu of a later call), a third object is on a free list, and one
\* of the threads is inside tmppool_get with a list locked
C30_Witness ==
    \E p \in Threads, q \in Threads :
        /\ p # q
        /\ HeldBy(pool, p) # {} /\ HeldBy(pool, q) # {}
        /\ \E i \in Lists : FreeList(pool, i) # <<>>
        /\ 1 \in Held(pool) /\ pool.u[1].v = MaxCpu
        /\ At(q, "g_first")

(***************************************************************************)
(* The search as clique.c compiles it with USE_PIVOT 0: no pivot is        *)
(* chosen, no Node of P is skipped, there is no still_in_P, and newP is    *)
(* filled from P from the index i + 1 on only.                             *)
(***************************************************************************)
RECURSIVE BronKerbosch_plain(_, _, _, _, _, _, _)
RECURSIVE plain_loop(_, _, _, _, _, _, _, _)
RECURSIVE plain_visit(_, _, _, _, _, _, _, _, _)
RECURSIVE plain_recurse(_, _, _, _, _, _, _, _, _, _)
RECURSIVE plain_after(_, _, _, _, _, _, _, _)

BronKerbosch_plain(G, R, P, X, calls, stop, value) ==
    IF Len(P.nodes) = 0
    THEN IF X_is_empty(X)
         THEN [calls |-> Append(calls, R.nodes),
               r |-> callback(Len(calls) + 1, stop, value),
               abort |-> FALSE]
         ELSE [calls |-> calls, r |-> 0, abort |-> FALSE]
    ELSE plain_loop(G, R, P, X, 1, calls, stop, value)

plain_loop(G, R, P, X, i, calls, stop, value) ==
    IF X.abort
    THEN Aborted(calls)
    ELSE IF i > Len(P.nodes)
    THEN [calls |-> calls, r |-> 0, abort |-> FALSE]
    ELSE plain_visit(G, R, P, X, i,
                     collect_neighbours(G.node_os[P.nodes[i]].out_edges, 1,
                                        nodeset_clear),
                     calls, stop, value)

plain_visit(G, R, P, X, i, N, calls, stop, value) ==
    IF N.abort
    THEN Aborted(calls)
    ELSE plain_recurse(G, R, P, X, i, N,
                       restrict_into(nodeset_clear, P.nodes, i + 1, N),
                       calls, stop, value)

plain_recurse(G, R, P, X, i, N, newP, calls, stop, value) ==
    IF newP.abort
    THEN Aborted(calls)
    ELSE plain_after(G, R, P, X, i,
                     BronKerbosch_plain(G, nodeset_append(R, P.nodes[i]),
                                        newP, nodeset_intersect(N, X),
                                        calls, stop, value),
                     stop, value)

plain_after(G, R, P, X, i, res, stop, value) ==
    IF res.abort \/ Stops(res.r)
    THEN res
    ELSE plain_loop(G, R, P, X_add(X, P.nodes[i]), i + 1, res.calls, stop,
                    value)

\* component_iterate_maximal_cliques of the build with USE_PIVOT 0
component_iterate_maximal_cliques_plain(G, members, calls, stop, value) ==
    BronKerbosch_plain(G, nodeset_clear,
                       nodeset_sort(append_members(members, 1, nodeset_clear)),
                       nodeset_clear, calls, stop, value)

\* component_iterate_maximal_cliques on the Component at position pos, by
\* the build with USE_PIVOT 1 and by the build with USE_PIVOT 0, with the
\* same callback; piv and pln are the two results
RecordBoth(pos, stop, value, piv, pln) ==
    last' = [op |-> "both_builds", s1 |-> 0, s2 |-> 0, rv |-> piv.r,
             failed |-> FALSE, exited |-> FALSE, again |-> FALSE,
             reverse |-> FALSE, calls |-> piv.calls, pos |-> pos,
             stop |-> stop, value |-> value, abort |-> piv.abort,
             plain |-> pln]

SearchBoth(pos, stop, value) ==
    /\ last.op = "none"
    /\ ~crashed
    /\ pos \in 1..Len(g.components)
    /\ RecordBoth(pos, stop, value,
           component_iterate_maximal_cliques(g, g.components[pos].nodes,
                                             <<>>, stop, value),
           component_iterate_maximal_cliques_plain(g, g.components[pos].nodes,
                                                   <<>>, stop, value))
    /\ pre' = g
    /\ UNCHANGED <<g, hashsel, seenIds, seenArcs, allocfailed, crashed, ncalls>>
    /\ UNCHANGED others

NextPivot ==
    \E pos \in 1..WideNodes, stop \in 0..MaxStop, value \in StopValues :
       SearchBoth(pos, stop, value)

SpecPivot == InitClique /\ [][NextPivot]_vars

\* how many of the arrays of calls hold exactly the Nodes of S
Reports(calls, S) == Cardinality({k \in 1..Len(calls) : Range(calls[k]) = S})

ChainedIn(G, b) == Range(G.nodes[b])

\* the bucket that lookup and graph_remove_last_node inspect for the Node n
InspectedBucket(G, n) == BitAnd(G.node_os[n].hv, G.hashmask)

(***************************************************************************)
(* C32.  After every add_node and add_edge call that returned, every Node  *)
(* chained in the index is chained in the bucket numbered by its hash      *)
(* value AND the current hashmask, the bucket that lookup and              *)
(* graph_remove_last_node inspect, also right after the bucket array has   *)
(* been doubled; and a call that changes the bucket array doubles the      *)
(* number of buckets and sets the threshold to the number of buckets times *)
(* its logarithm to the base 2.                                            *)
(***************************************************************************)
C32_Placement ==
    ~crashed =>
        /\ \A b \in DOMAIN g.nodes :
              \A n \in ChainedIn(g, b) : InspectedBucket(g, n) = b
        /\ g.hashmask # pre.hashmask =>
              /\ g.hashmask + 1 = 2 * (pre.hashmask + 1)
              /\ g.resize_threshold = GrowthThreshold(g)

(***************************************************************************)
(* The invocations of graph_remove_last_node that a call makes, in order:  *)
(* each is the record of the Graph at the invocation and of the Node       *)
(* passed.  They are those of the failure paths of graph_add_node_internal *)
(* and graph_add_edge.                                                     *)
(***************************************************************************)
\* graph_add_node_internal, lines 302-307: the Node n was chained (Graph
\* G1 of r before a removal) and graph_new_component failed
node_removals(G, sel, nstr, F) ==
    LET hv == jenkins_hash(sel, nstr)
        al == graph_alloc_node(G, "node1" \in F, "resize" \in F)
        G1 == [al.g EXCEPT
                 !.node_os[al.n] = [ident |-> nstr, hv |-> hv, comp |-> NULL,
                                    out_edges |-> <<>>, out_degree |-> 0,
                                    in_degree |-> 0],
                 !.nodes[BitAnd(hv, al.g.hashmask)] = <<al.n>> \o @]
    IN  IF LookupNode(G, hv, nstr) # NULL \/ al.crash \/ al.n = NULL
        THEN <<>>
        ELSE IF graph_new_component(G1, "comp" \in F).c = NULL
        THEN <<[g |-> G1, n |-> al.n]>>
        ELSE <<>>

\* graph_add_edge, lines 614-622: the Nodes of s1 and s2 are m1 and m2;
\* rm2 is the result of the first removal where there is one
undo_removals(G, m1, m2, rm2) ==
    (IF G.node_os[m2].comp = NULL THEN <<[g |-> G, n |-> m2]>> ELSE <<>>)
    \o (IF ~rm2.crash /\ m1 # m2 /\ rm2.g.node_os[m1].comp = NULL
        THEN <<[g |-> rm2.g, n |-> m1]>>
        ELSE <<>>)

\* graph_add_edge, lines 575-623, for the edge from n1 to n2; d1 is the
\* result of the first do_add_edge where the call reaches it
oriented_removals(G, n1, n2, m1, m2, F, d1) ==
    IF IsLoopNoop(G, n1, n2)
    THEN IF /\ G.node_os[n1].comp = NULL
            /\ graph_new_component(G, "comp" \in F).c = NULL
         THEN <<[g |-> G, n |-> n1]>>
         ELSE <<>>
    ELSE IF IsParallelNoop(G, n1, n2) \/ d1.crash \/ d1.rv >= 0
    THEN <<>>
    ELSE undo_removals(G, m1, m2,
                       IF G.node_os[m2].comp = NULL
                       THEN graph_remove_last_node(G, m2)
                       ELSE [g |-> G, crash |-> FALSE])

\* graph_add_edge, lines 561-623: r1 and r2 are the results of the lookups
edge_removals(r1, r2, F) ==
    IF r1.n = NULL \/ r1.crash \/ r2.crash
    THEN <<>>
    ELSE IF r2.n = NULL
    THEN IF r1.g.node_os[r1.n].comp = NULL
         THEN <<[g |-> r1.g, n |-> r1.n]>>
         ELSE <<>>
    ELSE LET swapped == NeedsSwap(r2.g, r1.n, r2.n)
             n1 == IF swapped THEN r2.n ELSE r1.n
             n2 == IF swapped THEN r1.n ELSE r2.n
         IN  oriented_removals(r2.g, n1, n2, r1.n, r2.n, F,
                 do_add_edge(r2.g, n1, n2, "edge1" \in F, "comp" \in F))

\* add_node(nstr) and add_edge(s1, s2) with the invocations of
\* graph_remove_last_node they made kept in last.removals
UndoNode(nstr, F) ==
    /\ ~crashed
    /\ ncalls < MaxCalls
    /\ MayPass(nstr, InUse)
    /\ ncalls' = ncalls + 1
    /\ \E r \in {graph_add_node(g, hashsel, nstr, F)} :
           /\ g' = r.g
           /\ pre' = g
           /\ crashed' = r.crash
           /\ last' = [op |-> "add_node", s1 |-> nstr, s2 |-> nstr,
                       rv |-> r.rv, failed |-> r.failed,
                       exited |-> r.crash /\ F \cap ChunkPoints # {},
                       again |-> FALSE, reverse |-> FALSE,
                       removals |-> node_removals(g, hashsel, nstr, F)]
           /\ allocfailed' = (allocfailed \/ r.failed)
           /\ seenIds' = IF r.rv >= 0 /\ ~r.crash THEN seenIds \cup {nstr}
                         ELSE seenIds
    /\ UNCHANGED <<hashsel, seenArcs>>
    /\ UNCHANGED others

UndoEdgeWith(s1, s2, F, r1, r2) ==
    \E r \in {graph_add_edge(g, hashsel, s1, s2, F)} :
        /\ g' = r.g
        /\ pre' = g
        /\ crashed' = r.crash
        /\ last' = [op |-> "add_edge", s1 |-> s1, s2 |-> s2,
                    rv |-> r.rv, failed |-> r.failed,
                    exited |-> r.crash /\ F \cap ChunkPoints # {},
                    again |-> <<s1, s2>> \in seenArcs,
                    reverse |-> <<s2, s1>> \in seenArcs,
                    removals |-> edge_removals(r1, r2, F)]
        /\ allocfailed' = (allocfailed \/ r.failed)
        /\ seenIds' = IF r.rv >= 0 /\ ~r.crash THEN seenIds \cup {s1, s2}
                      ELSE seenIds
        /\ seenArcs' = IF r.rv >= 0 /\ ~r.crash
                       THEN seenArcs \cup {<<s1, s2>>}
                       ELSE seenArcs

UndoEdgeFrom(s1, s2, F, r1) ==
    UndoEdgeWith(s1, s2, F, r1,
        IF r1.n = NULL
        THEN r1
        ELSE graph_add_node_internal(r1.g, hashsel, s2, FALSE, F, "node2"))

UndoEdge(s1, s2, F) ==
    /\ ~crashed
    /\ ncalls < MaxCalls
    /\ MayPass(s1, InUse)
    /\ MayPass(s2, InUse \cup {s1})
    /\ ncalls' = ncalls + 1
    /\ UndoEdgeFrom(s1, s2, F,
           graph_add_node_internal(g, hashsel, s1, FALSE, F, "node1"))
    /\ UNCHANGED hashsel
    /\ UNCHANGED others

\* the runs start from the empty Graph, or from a Graph one Node short of
\* the first growth of the bucket array
InitUndo == InitWith(0) \/ InitWith(Prefill)

NextUndo ==
    \/ \E nstr \in Idents, F \in FailSets(g) : UndoNode(nstr, F)
    \/ \E s1 \in Idents, s2 \in Idents, F \in FailSets(g) : UndoEdge(s1, s2, F)

SpecUndo == InitUndo /\ [][NextUndo]_vars

\* the invocations of graph_remove_last_node of the latest call
Removals == IF last.op = "none" THEN <<>> ELSE last.removals

\* the most recently allocated Node that is still on the node obstack
NewestLive(G) == Len(G.node_os)

(***************************************************************************)
(* C33.  Every invocation of graph_remove_last_node that an add_node or    *)
(* add_edge call makes on one of its failure paths is passed a Node that   *)
(* has no Component and that is the most recently allocated Node still on  *)
(* the node obstack, so that obstack_free discards no other live Node.     *)
(***************************************************************************)
C33_UndoNewest ==
    \A k \in 1..Len(Removals) :
        /\ Removals[k].g.node_os[Removals[k].n].comp = NULL
        /\ Removals[k].n = NewestLive(Removals[k].g)

\* an add_edge call in undirected mode that created both endpoints, swapped
\* them, failed and removed both
C33_Witness ==
    /\ last.op = "add_edge"
    /\ Len(Removals) = 2
    /\ HasFlag(g.flags, GRAPH_UNDIRECTED)
    /\ NeedsSwap(Removals[1].g, Removals[2].n, Removals[1].n)
    /\ Len(g.node_os) = Len(pre.node_os)

\* the Graph has the flags GRAPH_DUAL and GRAPH_NOPARALLEL
DualNoParallel(G) ==
    HasFlag(G.flags, GRAPH_DUAL) /\ HasFlag(G.flags, GRAPH_NOPARALLEL)

\* edges exist in both directions between the Nodes u and v of G
BothWays(G, u, v) == EdgeCount(G, u, v) >= 1 /\ EdgeCount(G, v, u) >= 1

Members(G) == UNION {Range(G.components[i].nodes) : i \in 1..Len(G.components)}

\* the sum of the node_count (edge_count) fields of the Components from
\* the i-th on
RECURSIVE CountedNodes(_, _)
CountedNodes(G, i) ==
    IF i > Len(G.components) THEN 0
    ELSE G.components[i].node_count + CountedNodes(G, i + 1)

RECURSIVE CountedEdges(_, _)
CountedEdges(G, i) ==
    IF i > Len(G.components) THEN 0
    ELSE G.components[i].edge_count + CountedEdges(G, i + 1)

\* the Node n of G is a Node of H, with its identifier, with each of its
\* edges (a target that is no out-neighbour has no edge to keep) and with
\* degrees that are not smaller
NodeKept(G, H, n) ==
    /\ n \in LiveNodes(H)
    /\ H.node_os[n].ident = G.node_os[n].ident
    /\ H.node_os[n].hv = G.node_os[n].hv
    /\ H.node_os[n].out_degree >= G.node_os[n].out_degree
    /\ H.node_os[n].in_degree >= G.node_os[n].in_degree
    /\ \A v \in Range(G.node_os[n].out_edges) :
          EdgeCount(H, n, v) >= EdgeCount(G, n, v)

(***************************************************************************)
(* C35.  After every add_node and add_edge call that returned, every Node  *)
(* and every edge that the Graph held before the call is still there, no   *)
(* degree and no count of Nodes or edges (of the Graph, of the obstacks,   *)
(* summed over the Components) is smaller than before, and the number of   *)
(* Components differs by at most one from what it was before the call.     *)
(***************************************************************************)
C35_AppendOnly ==
    ~crashed =>
        /\ \A n \in LiveNodes(pre) : NodeKept(pre, g, n)
        /\ IndexedNodes(pre) \subseteq IndexedNodes(g)
        /\ Members(pre) \subseteq Members(g)
        /\ g.node_count >= pre.node_count
        /\ g.edge_os >= pre.edge_os
        /\ TotalEdges(g) >= TotalEdges(pre)
        /\ CountedNodes(g, 1) >= CountedNodes(pre, 1)
        /\ CountedEdges(g, 1) >= CountedEdges(pre, 1)
        /\ Len(g.components) - Len(pre.components) \in {-1, 0, 1}

\* a call that merged two Components, after a call that failed and was
\* rolled back
C35_Witness ==
    /\ ~crashed
    /\ allocfailed
    /\ last.op = "add_edge"
    /\ last.rv >= 1
    /\ Len(g.components) = Len(pre.components) - 1
    /\ TotalEdges(g) > TotalEdges(pre)

(***************************************************************************)
(* Node sets with their capacity.  struct NodeSet is here the record       *)
(* [nodes, sorted, abort, cap]; the operations above read and write the    *)
(* fields nodes, sorted and abort only, and the functions below add what   *)
(* clique.c does with cap: nodeset_append and nodeset_insert_sorted first  *)
(* grow a full array, and return -1 without touching the set when realloc  *)
(* fails (fail).                                                           *)
(***************************************************************************)
MinCap == 7

\* nodeset_alloc(init) where both malloc calls succeed
nodeset_alloc(init) ==
    [nodes |-> <<>>, sorted |-> TRUE, abort |-> FALSE,
     cap |-> IF init < MinCap THEN MinCap ELSE init]

\* nodeset_increase_capacity(ns) where realloc succeeds
nodeset_increase_capacity(ns) == [ns EXCEPT !.cap = @ + (@ \div 2) + 1]

\* `ns->len == ns->cap'
IsFull(ns) == Len(ns.nodes) = ns.cap

\* nodeset_clear(ns) of a set with its capacity
nodeset_empty(ns) == [ns EXCEPT !.nodes = <<>>, !.sorted = TRUE]

\* nodeset_append(ns, node) and nodeset_insert_sorted(ns, node) from their
\* first line on: the set afterwards and the value returned
append_call(ns, node, fail) ==
    IF IsFull(ns) /\ fail
    THEN [ns |-> ns, r |-> -1]
    ELSE [ns |-> nodeset_append(IF IsFull(ns)
                                THEN nodeset_increase_capacity(ns) ELSE ns,
                                node),
          r |-> 0]

insert_call(ns, node, fail) ==
    IF IsFull(ns) /\ fail
    THEN [ns |-> ns, r |-> -1]
    ELSE [ns |-> nodeset_insert_sorted(IF IsFull(ns)
                                       THEN nodeset_increase_capacity(ns)
                                       ELSE ns,
                                       node),
          r |-> 0]

SetNodes == 1..MaxNode

\* the nodes of S in increasing (dir = 1) or decreasing (dir = -1) order
RECURSIVE InOrder(_, _)
InOrder(S, dir) ==
    IF S = {} THEN <<>>
    ELSE LET x == CHOOSE y \in S : \A z \in S : dir * y <= dir * z
         IN  <<x>> \o InOrder(S \ {x}, dir)

\* the set ns after nodeset_append calls for the elements of seq from the
\* k-th on, none of which fails
RECURSIVE AppendAll(_, _, _)
AppendAll(ns, seq, k) ==
    IF k > Len(seq) THEN ns
    ELSE AppendAll(append_call(ns, seq[k], FALSE).ns, seq, k + 1)

\* the node sets that nodeset_alloc and nodeset_append calls in increasing
\* or in decreasing order give
BuiltSets ==
    {AppendAll(nodeset_alloc(0), InOrder(S, dir), 1) :
        S \in SUBSET SetNodes, dir \in {1, -1}}

\* the sets passed as the second argument of nodeset_intersect: those of
\* BuiltSets that are long enough for the bisection of nodeset_contains,
\* and those of at most one Node
SecondSets ==
    {B \in BuiltSets : Len(B.nodes) >= MinCap \/ Len(B.nodes) <= 1}

\* cliq holds the set A, the operation applied last (op) with its Node x
\* and its result r, the set as it was before it (was), and the number n
\* of operations applied
InitSets ==
    /\ GraphIdle
    /\ tailq = Idle
    /\ splitcol = Idle
    /\ pool = Idle
    /\ \E A \in BuiltSets :
          cliq = [pc |-> "sets", A |-> A, was |-> A, op |-> "none", x |-> 0,
                  r |-> 0, n |-> 0]

\* the state after the operation op with the Node x gave the set A and
\* returned r
SetStep(op, x, A, r) ==
    /\ cliq.pc = "sets"
    /\ ~cliq.A.abort
    /\ cliq.n < MaxSetOps
    /\ cliq' = [cliq EXCEPT !.A = A, !.was = cliq.A, !.op = op, !.x = x,
                            !.r = r, !.n = @ + 1]
    /\ UNCHANGED <<g, hashsel, pre, last, seenIds, seenArcs, allocfailed,
                   crashed, ncalls, tailq, splitcol, pool>>

SetCall(op, x, res) == SetStep(op, x, res.ns, res.r)

SetAppend(x, fail) ==
    SetCall("nodeset_append", x, append_call(cliq.A, x, fail))

SetInsertSorted(x, fail) ==
    SetCall("nodeset_insert_sorted", x, insert_call(cliq.A, x, fail))

SetIntersect(B) ==
    SetStep("nodeset_intersect", 0, nodeset_intersect(cliq.A, B), 0)

SetClear == SetStep("nodeset_clear", 0, nodeset_empty(cliq.A), 0)

SetSort == SetStep("nodeset_sort", 0, nodeset_sort(cliq.A), 0)

NextSets ==
    \/ \E x \in SetNodes, fail \in BOOLEAN : SetAppend(x, fail)
    \/ \E x \in SetNodes, fail \in BOOLEAN : SetInsertSorted(x, fail)
    \/ \E B \in SecondSets : SetIntersect(B)
    \/ SetClear
    \/ SetSort

SpecSets == InitSets /\ [][NextSets]_vars

\* the array is in non-decreasing node order
NonDecreasing(nodes) ==
    \A i \in 1..(Len(nodes) - 1) : cmp_nodeptr(nodes[i], nodes[i + 1]) <= 0

(***************************************************************************)
(* C38.  For every node set that nodeset_append, nodeset_insert_sorted,    *)
(* nodeset_intersect, nodeset_clear and nodeset_sort calls give: if its    *)
(* sorted flag is set, its array is in non-decreasing node order;          *)
(* nodeset_contains returns true exactly for the Nodes in the array, by    *)
(* bisection as by linear scan; and a nodeset_insert_sorted call that      *)
(* returned 0 left the set sorted, with one occurrence more of the Node    *)
(* passed and nothing else changed.                                        *)
(***************************************************************************)
C38_NodeSets ==
    (cliq.pc = "sets" /\ ~cliq.A.abort) =>
        /\ cliq.A.sorted => NonDecreasing(cliq.A.nodes)
        /\ \A y \in SetNodes :
              nodeset_contains(cliq.A, y) <=> y \in Range(cliq.A.nodes)
        /\ (cliq.op = "nodeset_insert_sorted" /\ cliq.r = 0) =>
              /\ cliq.A.sorted
              /\ NonDecreasing(cliq.A.nodes)
              /\ \A y \in SetNodes :
                    Occurrences(cliq.A.nodes, y)
                       = Occurrences(cliq.was.nodes, y)
                            + (IF y = cliq.x THEN 1 ELSE 0)

\* nodeset_insert_sorted put a Node into the middle of a sorted set that
\* is then long enough for the bisection of nodeset_contains, after an
\* operation that changed the set
C38_Witness ==
    /\ cliq.pc = "sets"
    /\ cliq.op = "nodeset_insert_sorted"
    /\ cliq.r = 0
    /\ cliq.n = MaxSetOps
    /\ cliq.was.sorted
    /\ Len(cliq.A.nodes) >= MinCap
    /\ \E i \in 2..(Len(cliq.A.nodes) - 1) : cliq.A.nodes[i] = cliq.x

(***************************************************************************)
(* The clique search with its buffers and its node-set pool.  A buffer is  *)
(* a struct NodeSet with its capacity, its address id, and the role it     *)
(* served in last (R, P, X, newP, newX or still_in_P).  The search is      *)
(* given by what happens to the record c:                                  *)
(*   R        cliqctx->R                                                   *)
(*   pool     cliqctx->pool.sets, the SLIST of free buffers, head first    *)
(*   count    cliqctx->pool.count                                          *)
(*   calls    the arrays passed to the user callback so far                *)
(*   stop, value   the callback returns value at its stop-th invocation    *)
(*   nalloc   the number of malloc and realloc calls made so far           *)
(*   failat   the call of these that returns NULL (0: none does)           *)
(*   fresh    the address malloc gives out next                            *)
(*   dead     the process has run into abort()                             *)
(*   frames   for each active BronKerbosch invocation, outermost first,    *)
(*            the buffers it holds in R, P, X, newP, newX and still_in_P   *)
(*   log      what happened so far: an entry for every entry to            *)
(*            BronKerbosch, every buffer taken from and given to the pool, *)
(*            and every return, each with the free list, the count and     *)
(*            the frames at that point                                     *)
(***************************************************************************)
NullSet ==
    [nodes |-> <<>>, sorted |-> TRUE, abort |-> FALSE, cap |-> 0,
     id |-> NULL, role |-> "none"]

\* the malloc or realloc call made next returns NULL
AllocFails(c) == c.nalloc + 1 = c.failat

\* c after a malloc or realloc call
Counted(c) == [c EXCEPT !.nalloc = @ + 1]

FreeIds(c) == [k \in 1..Len(c.pool) |-> c.pool[k].id]

Logged(c, ev) ==
    [c EXCEPT !.log = Append(@, ev @@ [free |-> FreeIds(c), count |-> c.count,
                                       frames |-> c.frames])]

\* nodeset_alloc(cap): the buffer, NULL if the allocation fails
new_buffer(c, cap) ==
    IF AllocFails(c)
    THEN [c |-> Counted(c), ns |-> NullSet]
    ELSE [c |-> [Counted(c) EXCEPT !.fresh = @ + 1],
          ns |-> nodeset_alloc(cap) @@ [id |-> c.fresh, role |-> "none"]]

nsp_init(c) == [c EXCEPT !.pool = <<>>, !.count = 0]

nsp_get_Keep(c, cap) ==
    IF c.pool # <<>>
    THEN [c |-> [c EXCEPT !.count = @ - 1], ns |-> Head(c.pool)]
    ELSE new_buffer(c, cap)

\* nsp_get(pool, cap)
nsp_get(c, cap) ==
    IF c.pool # <<>>
    THEN [c |-> [c EXCEPT !.pool = Tail(@), !.count = @ - 1],
          ns |-> Head(c.pool)]
    ELSE new_buffer(c, cap)

\* nsp_put(pool, ns)
nsp_put(c, ns) ==
    IF ns.id = NULL THEN c
    ELSE [c EXCEPT !.pool = <<ns>> \o @, !.count = @ + 1]

\* `role = nsp_get(...)' in the invocation with the locals f; res is the
\* result of nsp_get
took(f, role, res) ==
    [f EXCEPT ![role] = [res.ns EXCEPT !.role = role],
              !.taken = IF res.ns.id = NULL THEN @ ELSE @ \cup {res.ns.id},
              !.c = Logged([res.c EXCEPT
                              !.frames[Len(res.c.frames)][role] = res.ns.id],
                           [k |-> "get", b |-> res.ns.id, role |-> role,
                            prev |-> res.ns.role])]

\* `nsp_put(&cliqctx->pool, role)' in the invocation with the locals f
give(f, role) ==
    IF f[role].id = NULL THEN f
    ELSE [f EXCEPT !.c =
             Logged(nsp_put([f.c EXCEPT
                                !.frames[Len(f.c.frames)][role] = NULL],
                            f[role]),
                    [k |-> "put", b |-> f[role].id, role |-> role])]

\* nodeset_insert_sorted(ns, node) in the search c: res is the result of
\* the call, which made a realloc call if the set was full
inserted(c, full, res) ==
    [c |-> [(IF full THEN Counted(c) ELSE c) EXCEPT
              !.dead = @ \/ res.ns.abort],
     ns |-> res.ns,
     r |-> IF res.ns.abort THEN -1 ELSE res.r]

ins(c, ns, node) ==
    inserted(c, IsFull(ns), insert_call(ns, node, IsFull(ns) /\ AllocFails(c)))

\* the loops that insert the elements of the array seq from index k on
\* into a set, all of them or those that are in N, until an insertion
\* fails; a = [c, ns, r] is the search, the set and the latest result
RECURSIVE insert_each(_, _, _, _, _)
insert_each(a, seq, k, N, all) ==
    IF a.r # 0 \/ k > Len(seq)
    THEN a
    ELSE IF all \/ nodeset_contains(N, seq[k])
    THEN insert_each(ins(a.c, a.ns, seq[k]), seq, k + 1, N, all)
    ELSE insert_each(a, seq, k + 1, N, all)

\* the return of the invocation with the locals f
search_return(f) ==
    [c |-> IF f.c.dead
           THEN f.c
           ELSE [Logged(f.c, [k |-> "return", d |-> f.d, r |-> f.r,
                              taken |-> f.taken, R |-> f.c.R.nodes,
                              R0 |-> f.R0])
                   EXCEPT !.frames = SubSeq(@, 1, Len(@) - 1)],
     X |-> f.X,
     r |-> f.r]

search_out_SameOrder(f) ==
    IF f.c.dead THEN search_return(f)
    ELSE search_return(give(give(give(f, "newP"), "newX"), "still_in_P"))

\* the label out: of BronKerbosch
search_out(f) ==
    IF f.c.dead THEN search_return(f)
    ELSE search_return(give(give(give(f, "still_in_P"), "newX"), "newP"))

\* the invocation of the user callback
search_report(f) ==
    [f EXCEPT !.c.calls = Append(@, f.c.R.nodes),
              !.r = callback(Len(f.c.calls) + 1, f.c.stop, f.c.value)]

\* `pivot->out_degree < P->len ? pivot->out_degree : P->len'
still_cap(G, f) ==
    IF G.node_os[f.pivot].out_degree < Len(f.P.nodes)
    THEN G.node_os[f.pivot].out_degree
    ELSE Len(f.P.nodes)

\* BronKerbosch(cliqctx, P, X) at recursion depth d: search is the call,
\* the other operators are its parts in the order of the code, each given
\* the locals f = [c, P, X, newP, newX, still_in_P, pivot, i, r, d, ...]
RECURSIVE search(_, _, _, _, _)
RECURSIVE search_body(_, _)
RECURSIVE search_newP(_, _)
RECURSIVE search_newX(_, _)
RECURSIVE search_pivot(_, _)
RECURSIVE search_still(_, _)
RECURSIVE search_clear(_, _)
RECURSIVE search_loop(_, _)
RECURSIVE loop_skip(_, _, _)
RECURSIVE visit_v(_, _)
RECURSIVE visit_N(_, _, _)
RECURSIVE visit_S(_, _, _)
RECURSIVE visit_P(_, _, _)
RECURSIVE visit_call(_, _)
RECURSIVE visit_after(_, _, _)
RECURSIVE visit_X(_, _, _)

search(G, c, P, X, d) ==
    search_body(G,
        [c |-> Logged([c EXCEPT !.frames =
                          Append(@, [R |-> c.R.id, P |-> P.id, X |-> X.id,
                                     newP |-> NULL, newX |-> NULL,
                                     still_in_P |-> NULL])],
                      [k |-> "enter", d |-> d, R |-> c.R.nodes,
                       P |-> P.nodes, X |-> X.nodes]),
         P |-> P, X |-> X, newP |-> NullSet, newX |-> NullSet,
         still_in_P |-> NullSet, pivot |-> NULL, i |-> 1, r |-> -1, d |-> d,
         taken |-> {}, R0 |-> c.R.nodes])

search_body(G, f) ==
    IF Len(f.P.nodes) = 0
    THEN IF Len(f.X.nodes) = 0
         THEN search_return(search_report(f))
         ELSE search_return([f EXCEPT !.r = 0])
    ELSE IF IsFull(f.c.R) /\ AllocFails(f.c)
    THEN search_return([f EXCEPT !.c = Counted(@), !.r = -1])
    ELSE IF IsFull(f.c.R)
    THEN search_newP(G, [f EXCEPT !.c = [Counted(@) EXCEPT
                             !.R = nodeset_increase_capacity(@)]])
    ELSE search_newP(G, f)

search_newP(G, f) == search_newX(G, took(f, "newP", nsp_get(f.c, 0)))

search_newX(G, f) == search_pivot(G, took(f, "newX", nsp_get(f.c, 0)))

search_pivot(G, f) ==
    IF f.newP.id = NULL \/ f.newX.id = NULL
    THEN search_out(f)
    ELSE search_still(G, [f EXCEPT !.pivot = choose_pivot(G, f.P, f.X)])

search_still(G, f) ==
    search_clear(G, took(f, "still_in_P", nsp_get(f.c, still_cap(G, f))))

search_clear(G, f) ==
    IF f.still_in_P.id = NULL
    THEN search_out(f)
    ELSE search_loop(G, [f EXCEPT !.still_in_P = nodeset_empty(@)])

search_loop(G, f) ==
    IF f.i > Len(f.P.nodes)
    THEN search_out([f EXCEPT !.r = 0])
    ELSE IF graph_edge_exists(G, f.pivot, f.P.nodes[f.i])
    THEN loop_skip(G, f, ins(f.c, f.still_in_P, f.P.nodes[f.i]))
    ELSE visit_v(G, [f EXCEPT !.c.R = nodeset_append(@, f.P.nodes[f.i]),
                              !.newP = nodeset_empty(@),
                              !.newX = nodeset_empty(@)])

\* `Remember that v actually belongs to P.'
loop_skip(G, f, a) ==
    IF a.r # 0
    THEN search_out([f EXCEPT !.c = a.c, !.still_in_P = a.ns, !.r = -1])
    ELSE search_loop(G, [f EXCEPT !.c = a.c, !.still_in_P = a.ns,
                                  !.i = @ + 1])

\* v = P->nodes[i] is on R, newP and newX are cleared: `We use newX
\* temporarily to contain N(v)'
visit_v(G, f) ==
    visit_N(G, f, insert_each([c |-> f.c, ns |-> f.newX, r |-> 0],
                              G.node_os[f.P.nodes[f.i]].out_edges, 1,
                              NullSet, TRUE))

\* newX holds N(v) (a.ns); next the elements of still_in_P go to newP
visit_N(G, f, a) ==
    IF a.r # 0
    THEN search_out([f EXCEPT !.c = a.c, !.newX = a.ns, !.r = -1])
    ELSE visit_S(G, [f EXCEPT !.c = a.c, !.newX = a.ns],
                 insert_each([c |-> a.c, ns |-> f.newP, r |-> 0],
                             f.still_in_P.nodes, 1, a.ns, FALSE))

\* next the elements of P from j = i + 1 on go to newP
visit_S(G, f, a) ==
    IF a.r # 0
    THEN search_out([f EXCEPT !.c = a.c, !.newP = a.ns, !.r = -1])
    ELSE visit_P(G, f, insert_each(a, f.P.nodes, f.i + 1, f.newX, FALSE))

\* `Now restrict newX to its intersection with X.'
visit_P(G, f, a) ==
    IF a.r # 0
    THEN search_out([f EXCEPT !.c = a.c, !.newP = a.ns, !.r = -1])
    ELSE visit_call(G, [f EXCEPT !.c = a.c, !.newP = a.ns,
                                 !.newX = nodeset_intersect(@, f.X)])

visit_call(G, f) ==
    visit_after(G, f, search(G, f.c, f.newP, f.newX, f.d + 1))

visit_after_NoPop(G, f, res) ==
    IF res.r # 0
    THEN search_out([f EXCEPT !.c = res.c, !.newX = res.X, !.r = res.r])
    ELSE visit_X(G, [f EXCEPT !.newX = res.X], ins(res.c, f.X, f.P.nodes[f.i]))

\* `Remove v from R again.' and `Add v to X.'
visit_after(G, f, res) ==
    IF res.r # 0
    THEN search_out([f EXCEPT !.c = res.c, !.newX = res.X, !.r = res.r])
    ELSE visit_X(G, [f EXCEPT !.newX = res.X],
                 ins([res.c EXCEPT !.R.nodes = SubSeq(@, 1, Len(@) - 1)],
                     f.X, f.P.nodes[f.i]))

visit_X(G, f, a) ==
    IF a.r # 0
    THEN search_out([f EXCEPT !.c = a.c, !.X = a.ns, !.r = -1])
    ELSE search_loop(G, [f EXCEPT !.c = a.c, !.X = a.ns, !.i = @ + 1])

\* cliqctx before a search with the callback (stop, value) in which the
\* failat-th allocation fails
NewSearch(stop, value, failat) ==
    [R |-> NullSet, pool |-> <<>>, count |-> 0, calls |-> <<>>,
     stop |-> stop, value |-> value, nalloc |-> 0, failat |-> failat,
     fresh |-> 1, dead |-> FALSE, frames |-> <<>>, log |-> <<>>]

\* the buffer of a as the set with the role `role'
InRole(a, role) == [a.ns EXCEPT !.role = role]

\* component_iterate_maximal_cliques(comp, callback, ctx) for the Component
\* with the STAILQ members: the three nodeset_alloc calls (a, b, e are
\* their results), the loop that fills P, the search, and the label out:
\* with nsp_destroy; the result holds the free list and the count as they
\* are before nsp_destroy
searched(res) ==
    [r |-> res.r, calls |-> res.c.calls, log |-> res.c.log,
     dead |-> res.c.dead, free |-> FreeIds(res.c), count |-> res.c.count,
     destroyed |-> nsp_init(res.c).count]

component_search_X(G, members, a, b, e) ==
    IF a.ns.id = NULL \/ b.ns.id = NULL \/ e.ns.id = NULL
    THEN searched([c |-> e.c, r |-> -1])
    ELSE searched(search(G, [e.c EXCEPT !.R = InRole(a, "R")],
                         nodeset_sort(AppendAll(InRole(b, "P"), members, 1)),
                         InRole(e, "X"), 0))

component_search_P(G, members, a, b) ==
    component_search_X(G, members, a, b, new_buffer(b.c, Len(members)))

component_search_R(G, members, a) ==
    component_search_P(G, members, a, new_buffer(a.c, Len(members)))

component_search(G, members, c) ==
    component_search_R(G, members, new_buffer(nsp_init(c), 0))

\* the search does not read the hash values, so the Graphs of one hash
\* function are taken
InitSearch == InitClique /\ hashsel = "collide"

\* a component_iterate_maximal_cliques call is recorded in cliq with its
\* arguments and with the result res of the search
SearchDone(pos, stop, value, failat, res) ==
    cliq' = [pc |-> "searched", pos |-> pos, stop |-> stop, value |-> value,
             failat |-> failat] @@ res

SearchComponent(pos, stop, value, failat) ==
    /\ cliq = Idle
    /\ pos \in 1..Len(g.components)
    /\ SearchDone(pos, stop, value, failat,
                  component_search(g, g.components[pos].nodes,
                                   NewSearch(stop, value, failat)))
    /\ UNCHANGED <<g, hashsel, pre, last, seenIds, seenArcs, allocfailed,
                   crashed, ncalls, tailq, splitcol, pool>>

\* the callback returns 0 always or stops the search; an allocation fails
\* only in searches that the callback does not stop
NextSearch ==
    \/ \E pos \in 1..WideNodes, stop \in 0..MaxStop, value \in StopValues :
          SearchComponent(pos, stop, value, 0)
    \/ \E pos \in 1..WideNodes, failat \in 1..MaxFailAt :
          SearchComponent(pos, 0, 0, failat)

SpecSearch == InitSearch /\ [][NextSearch]_vars

\* the log of the search recorded in cliq
SearchLog == IF cliq.pc = "searched" THEN cliq.log ELSE <<>>

\* the entries of the log at which a buffer was taken from nsp_get
Gets == {e \in 1..Len(SearchLog) : SearchLog[e].k = "get" /\ SearchLog[e].b # NULL}

\* the entries before e at which a buffer was given to nsp_put that is
\* still on the free list when the e-th entry happens
PutsStillFree(e) ==
    {p \in 1..(e - 1) :
        /\ SearchLog[p].k = "put"
        /\ \E i \in 1..Len(SearchLog[e - 1].free) :
              SearchLog[e - 1].free[i] = SearchLog[p].b}

\* the entries before e at which the buffer b was taken
GetsBefore(e, b) ==
    {q \in 1..(e - 1) : SearchLog[q].k = "get" /\ SearchLog[q].b = b}

Latest(S) == CHOOSE p \in S : \A q \in S : q <= p

(***************************************************************************)
(* C36.  In every search, nsp_get returns the buffer that was given to     *)
(* nsp_put most recently among those on the free list, and a new buffer    *)
(* only if the list is empty; and in a search in which no allocation       *)
(* fails, a buffer taken from the pool as newP, as newX or as still_in_P   *)
(* served in the same role when it was taken the time before.              *)
(***************************************************************************)
C36_PoolStack ==
    \A e \in Gets :
        /\ IF PutsStillFree(e) # {}
           THEN SearchLog[e].b = SearchLog[Latest(PutsStillFree(e))].b
           ELSE GetsBefore(e, SearchLog[e].b) = {}
        /\ (cliq.failat = 0 /\ GetsBefore(e, SearchLog[e].b) # {}) =>
              SearchLog[Latest(GetsBefore(e, SearchLog[e].b))].role
                 = SearchLog[e].role

\* a search without failure in which a buffer is taken for the third time
\* as still_in_P while six buffers exist
C36_Witness ==
    /\ cliq.pc = "searched"
    /\ cliq.failat = 0
    /\ cliq.r = 0
    /\ cliq.count = 6
    /\ \E e \in Gets :
          /\ SearchLog[e].role = "still_in_P"
          /\ Cardinality(GetsBefore(e, SearchLog[e].b)) >= 2

\* the array is in increasing node order
Increasing(nodes) ==
    \A i \in 1..(Len(nodes) - 1) : cmp_nodeptr(nodes[i], nodes[i + 1]) < 0

\* the entries of the log for the entries to BronKerbosch, and for its
\* returns with 0
Entries == {e \in 1..Len(SearchLog) : SearchLog[e].k = "enter"}

ReturnsOfZero ==
    {e \in 1..Len(SearchLog) : SearchLog[e].k = "return" /\ SearchLog[e].r = 0}

(***************************************************************************)
(* C37.  At every entry to BronKerbosch during a search on a Component of  *)
(* a simple symmetric Graph: P and X are disjoint and each in increasing   *)
(* node order, no member of R is in P or in X, R holds as many Nodes as    *)
(* the recursion is deep, they are distinct and pairwise adjacent, and     *)
(* every Node of P and of X is adjacent to every member of R; and at every *)
(* return with 0, R is as it was at the entry.                             *)
(***************************************************************************)
C37_SearchSets ==
    /\ \A e \in Entries :
          /\ Range(SearchLog[e].P) \cap Range(SearchLog[e].X) = {}
          /\ Increasing(SearchLog[e].P)
          /\ Increasing(SearchLog[e].X)
          /\ Range(SearchLog[e].R) \cap Range(SearchLog[e].P) = {}
          /\ Range(SearchLog[e].R) \cap Range(SearchLog[e].X) = {}
          /\ Len(SearchLog[e].R) = SearchLog[e].d
          /\ Cardinality(Range(SearchLog[e].R)) = SearchLog[e].d
          /\ IsClique(g, Range(SearchLog[e].R))
          /\ \A n \in Range(SearchLog[e].P) \cup Range(SearchLog[e].X) :
                \A m \in Range(SearchLog[e].R) : MutuallyAdjacent(g, n, m)
    /\ \A e \in ReturnsOfZero : SearchLog[e].R = SearchLog[e].R0

\* a search that entered BronKerbosch at depth 3, entered it at depth 2
\* with Nodes in P and in X, and returned 0 from an invocation at depth 1
\* that had made recursive calls
C37_Witness ==
    /\ cliq.pc = "searched"
    /\ \E e \in Entries : SearchLog[e].d >= 3
    /\ \E e \in Entries :
          /\ SearchLog[e].d >= 2
          /\ SearchLog[e].P # <<>>
          /\ SearchLog[e].X # <<>>
    /\ \E e \in ReturnsOfZero :
          SearchLog[e].d = 1 /\ SearchLog[e].taken # {}

Roles == {"R", "P", "X", "newP", "newX", "still_in_P"}

\* the buffers that the invocation with the frame fr holds
HeldIn(fr) == {fr[role] : role \in Roles} \ {NULL}

\* the buffers held by the invocations active at the e-th entry of the log
HeldAt(e) ==
    UNION {HeldIn(SearchLog[e].frames[i]) :
              i \in 1..Len(SearchLog[e].frames)}

Returns == {e \in 1..Len(SearchLog) : SearchLog[e].k = "return"}

(***************************************************************************)
(* C39.  At every point of every search, also of one in which an           *)
(* allocation fails or the callback stops it: no buffer on the free list   *)
(* of the pool is held as R, P, X, newP, newX or still_in_P by an active   *)
(* BronKerbosch invocation, and the buffers that one invocation holds in   *)
(* these roles are pairwise distinct; and when an invocation returns,      *)
(* whatever it returns, every buffer it took from the pool is on the free  *)
(* list and the count of the pool is the length of the free list.          *)
(***************************************************************************)
C39_PoolSafety ==
    /\ \A e \in 1..Len(SearchLog) :
          /\ Range(SearchLog[e].free) \cap HeldAt(e) = {}
          /\ \A i \in 1..Len(SearchLog[e].frames) :
                \A r1 \in Roles, r2 \in Roles :
                    (/\ r1 # r2
                     /\ SearchLog[e].frames[i][r1] # NULL
                     /\ SearchLog[e].frames[i][r2] # NULL) =>
                        SearchLog[e].frames[i][r1] # SearchLog[e].frames[i][r2]
    /\ \A e \in Returns :
          /\ SearchLog[e].taken \subseteq Range(SearchLog[e].free)
          /\ SearchLog[e].count = Len(SearchLog[e].free)
          /\ Cardinality(Range(SearchLog[e].free)) = Len(SearchLog[e].free)

\* a search in which an allocation failed inside an invocation at depth 1
\* or deeper, so that this invocation and its caller returned -1, and the
\* caller had taken three buffers of the pool
C39_Witness ==
    /\ cliq.pc = "searched"
    /\ cliq.failat > 0
    /\ cliq.r = -1
    /\ \E e \in Returns : SearchLog[e].r = -1 /\ SearchLog[e].d >= 1
    /\ \E e \in Returns :
          /\ SearchLog[e].r = -1
          /\ Cardinality(SearchLog[e].taken) = 3
          /\ SearchLog[e].taken \subseteq Range(SearchLog[e].free)

(***************************************************************************)
(* split_col with the limit on the files open for writing ($wopen_max).    *)
(* The lines of the input are known by the output file names they go to,   *)
(* 1..MaxNames.  An open() fails with the errors of a sequence over        *)
(* EMFILE and ENFILE, one per attempt, and then succeeds or fails with     *)
(* another error.  The record has the fields of the record of the earlier  *)
(* version, number_of_open_files being $wopen_count.                       *)
(***************************************************************************)
wopen_max == 1000

EMFILE == "EMFILE"
ENFILE == "ENFILE"

OpenFailures == UNION {[1..n -> {EMFILE, ENFILE}] : n \in 0..MaxErrs}

CacheNames == 1..MaxNames

\* `close_lru_file() while ($wopen_count > $target)'
RECURSIVE close_lru_files(_, _)
close_lru_files(S, target) ==
    IF S.number_of_open_files > target
    THEN close_lru_files(close_lru_file(S), target)
    ELSE S

\* `close_lru_file() while ($wopen_count >= $wopen_max)'
RECURSIVE close_for_max(_)
close_for_max(S) ==
    IF S.number_of_open_files >= S.wopen_max
    THEN close_for_max(close_lru_file(S))
    ELSE S

\* the loop of open_common: the attempts fail with errs, one after the
\* other, and then the open succeeds (ok) or fails with another error
RECURSIVE open_attempts(_, _, _)
open_attempts(S, errs, ok) ==
    IF errs = <<>>
    THEN IF ok THEN S ELSE [S EXCEPT !.pc = "died"]
    ELSE IF S.number_of_open_files = 0 THEN [S EXCEPT !.pc = "died"]
    ELSE open_attempts(
             close_lru_files(S, IF Head(errs) = EMFILE
                                THEN S.number_of_open_files - 1
                                ELSE S.number_of_open_files \div 2),
             Tail(errs), ok)

open_common(S, errs, ok) == open_attempts(close_for_max(S), errs, ok)

\* open_write of this version: the file is truncated and gets the header
open_common_write(S, fn, errs, ok) ==
    LET S1 == open_common(S, errs, ok)
    IN  IF S1.pc = "died" THEN S1
        ELSE [S1 EXCEPT !.disk[fn] = S1.headerline]

\* open_append of this version: the content of the file stays
open_common_append(S, fn, errs, ok) == open_common(S, errs, ok)

\* get_output_handle of this version followed by the print of
\* do_input_file
get_output_handle_max(S, fn, line, errs, ok) ==
    IF S.outfiles[fn] = "open"
    THEN [list_move_to_front(S, fn) EXCEPT !.disk[fn] = Append(@, line)]
    ELSE IF S.outfiles[fn] = "closed"
    THEN print_handle(open_common_append(S, fn, errs, ok), fn, line)
    ELSE print_handle(open_common_write(S, fn, errs, ok), fn, line)

\* what the property needs to know of the state before an operation
Before(S, op, fn) ==
    [op |-> op, fn |-> fn, lru |-> S.lru, outfiles |-> S.outfiles,
     stamp |-> S.stamp]

\* $wopen_max is 1000; MaxOpen stands for it where the limit is to be
\* reached with MaxNames file names
InitCache ==
    /\ GraphIdle
    /\ tailq = Idle
    /\ pool = Idle
    /\ cliq = Idle
    /\ \E max \in {MaxOpen, wopen_max} :
          splitcol = [pc |-> "next", wopen_max |-> max,
                      inp |-> 0, pos |-> 0, headerline |-> <<>>,
                      outfiles |-> [fn \in CacheNames |-> "none"],
                      lru |-> <<>>, number_of_open_files |-> 0,
                      disk |-> [fn \in CacheNames |-> <<>>],
                      stamp |-> [fn \in CacheNames |-> 0],
                      last |-> [op |-> "none"]]

\* do_input_file up to its loop: the next input file is opened for reading
CacheInput(errs, ok) ==
    /\ splitcol.pc \in {"next", "lines"}
    /\ splitcol.inp < MaxInputs
    /\ splitcol' =
          [open_common(splitcol, errs, ok) EXCEPT
              !.pc = IF @ = "died" THEN @ ELSE "lines",
              !.inp = @ + 1,
              !.last = Before(splitcol, "input", NULL)]
    /\ UNCHANGED <<graphvars, tailq, pool>>

\* one round of the loop of do_input_file: the line goes to the file fn
CacheLine(fn, errs, ok) ==
    /\ splitcol.pc = "lines"
    /\ splitcol.pos < MaxCacheLines
    /\ splitcol' =
          [get_output_handle_max([splitcol EXCEPT !.pos = @ + 1], fn,
                                 splitcol.pos + 1, errs, ok) EXCEPT
              !.stamp[fn] = splitcol.pos + 1,
              !.last = Before(splitcol, "line", fn)]
    /\ UNCHANGED <<graphvars, tailq, pool>>

\* `close_lru_files(0)' when the last input file is read
CacheClose ==
    /\ splitcol.pc = "lines"
    /\ splitcol' = [close_lru_files(splitcol, 0) EXCEPT
                       !.pc = "done",
                       !.last = Before(splitcol, "close", NULL)]
    /\ UNCHANGED <<graphvars, tailq, pool>>

NextCache ==
    \/ \E errs \in OpenFailures, ok \in BOOLEAN : CacheInput(errs, ok)
    \/ \E fn \in CacheNames, errs \in OpenFailures, ok \in BOOLEAN :
          CacheLine(fn, errs, ok)
    \/ CacheClose

SpecCache == InitCache /\ [][NextCache]_vars

OpenFiles(outfiles) == {fn \in CacheNames : outfiles[fn] = "open"}

\* the files that the last operation closed
ClosedByLast ==
    OpenFiles(splitcol.last.outfiles) \ OpenFiles(splitcol.outfiles)

\* the open files that were written to before the last operation, but
\* longer ago than fn
UsedBefore(fn) ==
    {o \in OpenFiles(splitcol.last.outfiles) :
        splitcol.last.stamp[o] < splitcol.last.stamp[fn]}

(***************************************************************************)
(* C40.  Between the operations of split_col (the opening of an input      *)
(* file, a line written, the closing at the end) the counter of the files  *)
(* open for writing is the length of the LRU list, the list has no file    *)
(* twice, its files are exactly those whose handle is defined, and the     *)
(* counter is at most wopen_max; after a line is written to a file that    *)
(* file is the first of the list; and the files an operation closed were   *)
(* written to longer ago than every file it left open that was open        *)
(* before, and it never closes the file it writes to.                      *)
(***************************************************************************)
C40_OpenFileCache ==
    (splitcol.pc \in {"next", "lines", "done"}) =>
        /\ splitcol.number_of_open_files = Len(splitcol.lru)
        /\ Cardinality(Range(splitcol.lru)) = Len(splitcol.lru)
        /\ Range(splitcol.lru) = OpenFiles(splitcol.outfiles)
        /\ splitcol.number_of_open_files <= splitcol.wopen_max
        /\ \A i \in 1..Len(splitcol.lru), j \in 1..Len(splitcol.lru) :
              i < j => splitcol.stamp[splitcol.lru[i]] >
                           splitcol.stamp[splitcol.lru[j]]
        /\ splitcol.last.op = "line" =>
              /\ splitcol.lru # <<>>
              /\ splitcol.lru[1] = splitcol.last.fn
        /\ splitcol.last.op # "none" =>
              \A c \in ClosedByLast :
                  /\ c # splitcol.last.fn
                  /\ \A o \in OpenFiles(splitcol.last.outfiles) \ ClosedByLast :
                        o # splitcol.last.fn =>
                            splitcol.last.stamp[c] < splitcol.last.stamp[o]

\* under the small limit, after some file got two lines, a line was
\* written for which open files were closed, and the list is full again
C40_Witness ==
    /\ splitcol.pc = "lines"
    /\ splitcol.wopen_max = MaxOpen
    /\ splitcol.last.op = "line"
    /\ ClosedByLast # {}
    /\ Len(splitcol.lru) = MaxOpen
    /\ \E fn \in CacheNames : Len(splitcol.disk[fn]) >= 2

====
